---- MODULE Spec2Model ----
(***************************************************************************)
(* Expiration-consistency subsystem of the URL shortener: the lazy-        *)
(* validation read path (GetLongURL), the write path (Shorten), the atomic *)
(* visit counter with its dedup map, and the background reaper             *)
(* (CleanupExpiredBatch), over a record store (PostgreSQL table urls) and  *)
(* an entry cache (Redis keys with a TTL).                                 *)
(*                                                                         *)
(* Time is in seconds.  A request is a thread that runs one operation at a *)
(* time; every store or cache call of an operation is one step, so calls   *)
(* of concurrent operations interleave and the clock may advance between   *)
(* them.  Every store and cache call may fail.                             *)
(***************************************************************************)
EXTENDS Integers, Sequences, FiniteSets, TLC

(***************************************************************************)
(* Bounds of the model.                                                    *)
(***************************************************************************)
\* operations begun in one behaviour
MaxOps == 3
\* operations begun in one behaviour of the reaper specifications
MaxReapOps == 2
\* clock advances in one behaviour
MaxTicks == 1
\* store or cache calls that fail in one behaviour
MaxFaults == 1
\* StartCleanup calls that get past the compare-and-swap in one behaviour
MaxStarts == 2
\* ticks that one ticker delivers in one behaviour
MaxFires == 1
\* operations begun in one behaviour of the life-cycle specification
MaxLifeOps == 3
\* seconds that pass in one behaviour of the dedup specification
MaxSeconds == 3
\* ticks that the ticker delivers in one behaviour of the tick specifications
MaxLoopTicks == 2
\* life-cycle calls in one behaviour of the restart specification
MaxRestartOps == 4

ThreadSeq == <<"t1", "t2", "t3">>

Threads == {ThreadSeq[i] : i \in 1..Len(ThreadSeq)}

\* the goroutines that StartCleanup launches, one per call that gets that far
LoopSeq == <<"l1", "l2", "l3">>

Loops == {LoopSeq[i] : i \in 1..MaxStarts}

Goroutines == Threads \cup Loops
Keys == {"k1", "k2"}
URLs == {"u1", "u2"}
\* clock advances: inside the dedup window, and past the cache floor, the
\* tombstone TTL and the reaper's buffer
TickSteps == {2, 3600}
\* clock advances of the pruning specification: inside the dedup window, and
\* past it but within the age that pruning leaves alone
PruneTickSteps == {2, 4}
\* ttl_seconds of a shorten request: already expired, default, short
TTLInputs == {-1, 0, 3}
BatchSizes == {1, 2}
\* ttl_seconds of requests that create a record whose expiration is hours back
PastTTLs == {-10000, -5000}

(***************************************************************************)
(* Program constants.                                                      *)
(***************************************************************************)
DefaultTTLSeconds == 86400
MinCacheTTL == 60
TombstoneTTL == 3600
DedupWindow == 3
DefaultCacheTTL == 86400
BufferTime == 3600
PruneAge == 5

(***************************************************************************)
(* Optional timestamps (Go pointer to time.Time, sql.NullTime).            *)
(***************************************************************************)
NullTime == [valid |-> FALSE, time |-> 0]

SomeTime(t) == [valid |-> TRUE, time |-> t]

\* variant of IsExpired in which no expiration time counts as passed
IsExpiredNever(exp, t) == FALSE

\* entity.URL.IsExpired / repository.CacheEntry.IsExpired at clock value t
IsExpired(exp, t) == exp.valid /\ t > exp.time

(***************************************************************************)
(* Entry cache: one Redis value per key, a JSON document or a raw string,  *)
(* with the absolute time at which Redis drops it.                         *)
(***************************************************************************)
NoEntry ==
  [present |-> FALSE, isJSON |-> FALSE, LongURL |-> "", ExpiresAt |-> NullTime,
   IsTombstone |-> FALSE, Reason |-> "", evictAt |-> 0]

\* CacheRepository.SetCacheEntry: json.Marshal(entry), SET key data ttl
SetCacheEntry(c, k, url, exp, ttl, t) ==
  [c EXCEPT ![k] = [present |-> TRUE, isJSON |-> TRUE, LongURL |-> url,
                    ExpiresAt |-> exp, IsTombstone |-> FALSE, Reason |-> "",
                    evictAt |-> t + ttl]]

\* CacheRepository.Set: SET key value ttl with the bare long URL
SetRaw(c, k, url, ttl, t) ==
  [c EXCEPT ![k] = [present |-> TRUE, isJSON |-> FALSE, LongURL |-> url,
                    ExpiresAt |-> NullTime, IsTombstone |-> FALSE, Reason |-> "",
                    evictAt |-> t + ttl]]

\* variant of SetTombstone in which the requested TTL is replaced by the cache floor
SetTombstoneFloor(c, k, reason, ttl, t) ==
  [c EXCEPT ![k] = [present |-> TRUE, isJSON |-> TRUE, LongURL |-> "",
                    ExpiresAt |-> NullTime, IsTombstone |-> TRUE, Reason |-> reason,
                    evictAt |-> t + MinCacheTTL]]

\* CacheRepository.SetTombstone
SetTombstone(c, k, reason, ttl, t) ==
  [c EXCEPT ![k] = [present |-> TRUE, isJSON |-> TRUE, LongURL |-> "",
                    ExpiresAt |-> NullTime, IsTombstone |-> TRUE, Reason |-> reason,
                    evictAt |-> t + ttl]]

\* variant of CacheDelete in which the key stays
CacheDeleteNone(c, k) == c

\* CacheRepository.Delete: DEL key
CacheDelete(c, k) == [c EXCEPT ![k] = NoEntry]

\* Redis drops a key once its TTL has run out
Evict(c, t) == [k \in Keys |-> IF c[k].present /\ c[k].evictAt <= t THEN NoEntry ELSE c[k]]

\* CacheRepository.GetCacheEntry on a present value: json.Unmarshal, and a
\* value that is not JSON becomes a legacy entry without expiration
GetCacheEntry(v) ==
  IF v.isJSON
    THEN [LongURL |-> v.LongURL, ExpiresAt |-> v.ExpiresAt,
          IsTombstone |-> v.IsTombstone, Reason |-> v.Reason]
    ELSE [LongURL |-> v.LongURL, ExpiresAt |-> NullTime,
          IsTombstone |-> FALSE, Reason |-> ""]

\* variant of TombstoneError in which every tombstone reads as not found
TombstoneErrorFlat(reason) == "ErrURLNotFound"

\* variant of TombstoneError in which every tombstone reads as expired
TombstoneErrorAllExpired(reason) == "ErrURLExpired"

\* tryGetFromCache: the failure a tombstone of the given reason maps to
TombstoneError(reason) == IF reason = "expired" THEN "ErrURLExpired" ELSE "ErrURLNotFound"

(***************************************************************************)
(* Record store: the rows of table urls, short_key unique.                 *)
(***************************************************************************)
\* variant of Row in which a new record starts with one visit
RowVisited(id, k, url, created, exp) ==
  [id |-> id, shortKey |-> k, longURL |-> url, createdAt |-> created,
   expiresAt |-> exp, visitCount |-> 1, lastAccessedAt |-> SomeTime(created)]

\* entity.NewURL and URLRepository.Save: a new row
Row(id, k, url, created, exp) ==
  [id |-> id, shortKey |-> k, longURL |-> url, createdAt |-> created,
   expiresAt |-> exp, visitCount |-> 0, lastAccessedAt |-> NullTime]

RowsOf(st, k) == {r \in st : r.shortKey = k}

HasKey(st, k) == RowsOf(st, k) # {}

RowIDs(st) == {r.id : r \in st}

TheRow(st, k) == CHOOSE r \in st : r.shortKey = k

\* variant of IncrementVisitCount in which the count is written from a value read earlier
IncrementVisitCountStale(st, k, t) ==
  {IF r.shortKey = k
     THEN [r EXCEPT !.visitCount = 1, !.lastAccessedAt = SomeTime(t)]
     ELSE r : r \in st}

\* variant of IncrementVisitCount in which a missing row is inserted
IncrementVisitCountUpsert(st, k, t) ==
  IF \E r \in st : r.shortKey = k
    THEN {IF r.shortKey = k
            THEN [r EXCEPT !.visitCount = @ + 1, !.lastAccessedAt = SomeTime(t)]
            ELSE r : r \in st}
    ELSE st \cup {[id |-> 0, shortKey |-> k, longURL |-> "", createdAt |-> t,
                   expiresAt |-> [valid |-> FALSE, time |-> 0], visitCount |-> 1,
                   lastAccessedAt |-> SomeTime(t)]}

\* URLRepository.IncrementVisitCount: one UPDATE statement
IncrementVisitCount(st, k, t) ==
  {IF r.shortKey = k
     THEN [r EXCEPT !.visitCount = @ + 1, !.lastAccessedAt = SomeTime(t)]
     ELSE r : r \in st}

\* cacheURL / cacheValidURL: the TTL of a cached valid entry at clock value t
CacheTTL(exp, t) ==
  IF exp.valid
    THEN (IF exp.time - t <= 0 THEN MinCacheTTL ELSE exp.time - t)
    ELSE DefaultCacheTTL

\* variant of handleExpiredRecord in which the read path deletes the expired row
handleExpiredRecordDelete(st, k) == {r \in st : r.shortKey # k}

\* handleCacheMiss on an expired record: lazy validation leaves the row alone
handleExpiredRecord(st, k) == st

(***************************************************************************)
(* State.                                                                  *)
(***************************************************************************)
VARIABLES
  now,           \* the clock (time.Now, CURRENT_TIMESTAMP, Redis TTL clock)
  store,         \* rows of table urls
  cache,         \* Redis values by key
  recentClicks,  \* ShortenURLUseCase.recentClicks
  unprunedClicks, \* recentClicks as it would be had cleanupRecentClicks never run
  stats,         \* BackgroundURLCleanupService.stats
  nextID,        \* the ID generator's next identifier
  th,            \* per request thread: position and locals of its operation
  ops,           \* operations begun so far
  ticks,         \* clock advances so far
  faults,        \* store and cache calls that have failed so far
  hits,          \* successful IncrementVisitCount calls per record id
  expiredSince,  \* per key: when a call that failed ErrURLExpired last wrote its tombstone
  budget,        \* operations the run may begin and threads it may use
  running,       \* BackgroundURLCleanupService.running, the atomic flag
  done,          \* BackgroundURLCleanupService.done has been closed
  ticker,        \* BackgroundURLCleanupService.ticker: 0 is nil, else a ticker
  tickerC,       \* per ticker: created, stopped, a tick waiting in its channel
  wg,            \* BackgroundURLCleanupService.wg, the counter of the WaitGroup
  config         \* BackgroundURLCleanupService.config

\* the life cycle of the reaper
lifecycle == <<running, done, ticker, tickerC, wg, config>>

vars ==
  <<now, store, cache, recentClicks, unprunedClicks, stats, nextID, th, ops, ticks,
    faults, hits,
    expiredSince, budget, lifecycle>>

\* a time.Ticker: its channel holds at most one tick
NoTicker == [made |-> FALSE, stopped |-> FALSE, pending |-> FALSE, fired |-> 0]

\* DefaultCleanupConfig, with a batch size that covers every record of a run
DefaultCleanupConfig == [Enabled |-> TRUE, BatchSize |-> 2]

\* what a CleanupExpiredBatch call keeps of the same caller's previous call
NoPrev == [called |-> FALSE, ok |-> FALSE, full |-> FALSE, elig |-> {}]

Idle ==
  [pc |-> "idle", op |-> "none", key |-> "", url |-> "", exp |-> NullTime,
   ttl |-> 0, reason |-> "", result |-> "", created |-> 0, id |-> 0,
   custom |-> FALSE, cutoff |-> 0, batch |-> <<>>, count |-> 0,
   \* history of the call, for stating properties
   faulted |-> FALSE, usedStore |-> FALSE, counted |-> FALSE, b_state |-> "",
   b_tomb |-> FALSE, cand |-> {}, elig |-> {}, full |-> FALSE, prev |-> NoPrev,
   b_created |-> FALSE, b_failed |-> FALSE,
   restarted |-> FALSE]

\* CleanupStats without the moving average of the duration
NoStats ==
  [TotalCleaned |-> 0, LastBatchSize |-> 0, SuccessfulRuns |-> 0, FailedRuns |-> 0,
   IsRunning |-> FALSE]

\* state of key k's row as a caller would judge it at clock value t
KeyState(st, k, t) ==
  IF ~HasKey(st, k) THEN "absent"
  ELSE IF IsExpired(TheRow(st, k).expiresAt, t) THEN "expired" ELSE "valid"

\* the call of thread t returns res; its locals are dropped, and what the
\* properties need of the call is kept
Finish(t, res, me) ==
  th' = [th EXCEPT ![t] = [Idle EXCEPT !.pc = "done", !.op = me.op, !.key = me.key,
                                      !.result = res,
                                      !.url = IF res = "ok" THEN me.url ELSE "",
                                      !.count = IF me.op = "CleanupExpiredBatch"
                                                  THEN me.count ELSE 0,
                                      !.cutoff = me.cutoff,
                                      !.faulted = me.faulted,
                                      !.usedStore = me.usedStore,
                                      !.counted = me.counted,
                                      !.b_state = me.b_state,
                                      !.b_tomb = me.b_tomb,
                                      !.b_created = me.b_created,
                                      !.b_failed = me.b_failed,
                                      !.cand = me.cand,
                                      !.elig = me.elig,
                                      !.full = me.full,
                                      !.prev = me.prev,
                                      !.restarted = me.restarted]]

\* record ids of a run: the seeded rows and one per operation
IDs == 1..(2 + MaxOps)

Hit(h, id) == [h EXCEPT ![id] = @ + 1]

\* a store or cache call succeeds (TRUE) or fails (FALSE)
Outcomes == IF faults < MaxFaults THEN BOOLEAN ELSE {TRUE}

Fault(ok) == faults' = IF ok THEN faults ELSE faults + 1

(***************************************************************************)
(* The clock.                                                              *)
(***************************************************************************)
Tick ==
  /\ ticks < MaxTicks
  /\ \E d \in TickSteps :
       /\ now' = now + d
       /\ cache' = Evict(cache, now + d)
  /\ ticks' = ticks + 1
  /\ UNCHANGED <<store, recentClicks, unprunedClicks, stats, nextID, th, ops, faults, hits, expiredSince, budget, lifecycle>>

\* the clock, second by second
TickSecond ==
  /\ ticks < MaxSeconds
  /\ now' = now + 1
  /\ cache' = Evict(cache, now + 1)
  /\ ticks' = ticks + 1
  /\ UNCHANGED <<store, recentClicks, unprunedClicks, stats, nextID, th, ops, faults, hits, expiredSince, budget, lifecycle>>

\* a thread is free for the next request when it runs no call; threads are
\* interchangeable, so a request goes to the first free one
Free(t) == th[t].pc \in {"idle", "done"}

CanBegin(t) ==
  /\ Free(t)
  /\ ops < budget.ops
  /\ \E i \in 1..budget.threads :
       /\ ThreadSeq[i] = t
       /\ \A j \in 1..(i - 1) : ~Free(ThreadSeq[j])

(***************************************************************************)
(* GetLongURL.                                                             *)
(***************************************************************************)
\* a call for key k has failed ErrURLExpired and the TTL of the tombstone it
\* wrote has not run out
AfterExpired(k) ==
  expiredSince[k].valid /\ now < expiredSince[k].time + TombstoneTTL

\* thread t's last call was a Shorten that returned key k to its caller
ShortenReturned(t, k) ==
  /\ th[t].op = "Shorten"
  /\ th[t].pc = "done"
  /\ th[t].result = "ok"
  /\ th[t].key = k

\* thread t's last call was a GetLongURL(k) that went to the store and
\* returned ErrURLNotFound because a call failed, k's record being in the
\* store and unexpired when the call began and now
LookupFailed(t, k) ==
  /\ th[t].op = "GetLongURL"
  /\ th[t].pc = "done"
  /\ th[t].key = k
  /\ th[t].faulted
  /\ th[t].usedStore
  /\ th[t].result = "ErrURLNotFound"
  /\ th[t].b_state = "valid"
  /\ HasKey(store, k)
  /\ ~IsExpired(TheRow(store, k).expiresAt, now)

GetLongURLBegin(t, k) ==
  /\ CanBegin(t)
  /\ ops' = ops + 1
  /\ th' = [th EXCEPT ![t] = [Idle EXCEPT !.pc = "g_cache", !.op = "GetLongURL",
                                       !.key = k,
                                       !.b_state = KeyState(store, k, now),
                                       !.b_tomb = AfterExpired(k),
                                       !.b_created = \E a \in Threads : ShortenReturned(a, k),
                                       !.b_failed = \E a \in Threads : LookupFailed(a, k)]]
  /\ UNCHANGED <<now, store, cache, recentClicks, unprunedClicks, stats, nextID, ticks, faults, hits, expiredSince, budget, lifecycle>>

\* tryGetFromCache
tryGetFromCache(t) ==
  LET me == th[t]
      v  == cache[me.key]
      e  == GetCacheEntry(v)
  IN /\ me.pc = "g_cache"
     /\ \E ok \in Outcomes :
          /\ Fault(ok)
          /\ IF ~ok \/ ~v.present
               THEN th' = [th EXCEPT ![t] = [me EXCEPT !.pc = "g_find",
                                                       !.faulted = @ \/ ~ok]]
               ELSE IF e.IsTombstone
                 THEN Finish(t, TombstoneError(e.Reason), me)
               ELSE IF IsExpired(e.ExpiresAt, now)
                 THEN th' = [th EXCEPT ![t] = [me EXCEPT !.pc = "g_settomb",
                                                         !.reason = "expired",
                                                         !.result = "ErrURLExpired"]]
               ELSE th' = [th EXCEPT ![t] = [me EXCEPT !.pc = "g_dedup",
                                                       !.url = e.LongURL]]
     /\ UNCHANGED <<now, store, cache, recentClicks, unprunedClicks, stats, nextID, ops, ticks, hits, expiredSince, budget, lifecycle>>

\* handleCacheMiss: FindByShortKey and the lazy validation of the record
handleCacheMiss(t) ==
  LET me == th[t]
      k  == me.key
  IN /\ me.pc = "g_find"
     /\ \E ok \in Outcomes :
          /\ Fault(ok)
          /\ IF ~ok \/ ~HasKey(store, k)
               THEN /\ th' = [th EXCEPT ![t] = [me EXCEPT !.pc = "g_settomb",
                                                          !.reason = "deleted",
                                                          !.result = "ErrURLNotFound",
                                                          !.usedStore = TRUE,
                                                          !.faulted = @ \/ ~ok]]
                    /\ store' = store
               ELSE IF IsExpired(TheRow(store, k).expiresAt, now)
                 THEN /\ th' = [th EXCEPT ![t] = [me EXCEPT !.pc = "g_settomb",
                                                            !.reason = "expired",
                                                            !.result = "ErrURLExpired",
                                                            !.usedStore = TRUE]]
                      /\ store' = handleExpiredRecord(store, k)
               ELSE /\ th' = [th EXCEPT ![t] =
                           [me EXCEPT !.pc = "g_setcache",
                                      !.url = TheRow(store, k).longURL,
                                      !.exp = TheRow(store, k).expiresAt,
                                      !.ttl = CacheTTL(TheRow(store, k).expiresAt, now),
                                      !.usedStore = TRUE]]
                    /\ store' = store
     /\ UNCHANGED <<now, cache, recentClicks, unprunedClicks, stats, nextID, ops, ticks, hits, expiredSince, budget, lifecycle>>

\* the SetTombstone call of tryGetFromCache and handleCacheMiss; its error is dropped
writeTombstone(t) ==
  LET me == th[t]
  IN /\ me.pc = "g_settomb"
     /\ \E ok \in Outcomes :
          /\ Fault(ok)
          /\ cache' = IF ok THEN SetTombstone(cache, me.key, me.reason, TombstoneTTL, now)
                            ELSE cache
          /\ Finish(t, me.result, [me EXCEPT !.faulted = @ \/ ~ok])
     /\ expiredSince' = IF me.result = "ErrURLExpired"
                          THEN [expiredSince EXCEPT ![me.key] = SomeTime(now)]
                          ELSE expiredSince
     /\ UNCHANGED <<now, store, recentClicks, unprunedClicks, stats, nextID, ops, ticks, hits, budget, lifecycle>>

\* cacheValidURL: the SetCacheEntry call; its error is dropped
cacheValidURL(t) ==
  LET me == th[t]
  IN /\ me.pc = "g_setcache"
     /\ \E ok \in Outcomes :
          /\ Fault(ok)
          /\ cache' = IF ok THEN SetCacheEntry(cache, me.key, me.url, me.exp, me.ttl, now)
                            ELSE cache
          /\ th' = [th EXCEPT ![t] = [me EXCEPT !.pc = "g_dedup",
                                                  !.faulted = @ \/ ~ok]]
     /\ UNCHANGED <<now, store, recentClicks, unprunedClicks, stats, nextID, ops, ticks, hits, expiredSince, budget, lifecycle>>

\* the lock that shouldIncrementVisitCount takes for key k: the use case has
\* one mutex, clicksMutex, for the whole map
DedupLock(k) == "clicksMutex"

\* variant of InDedupWindow in which a click exactly three seconds old still counts as recent
InDedupWindowClosed(clicks, k, t) == clicks[k].valid /\ t - clicks[k].time <= DedupWindow

\* variant of InDedupWindow in which no click counts as recent
InDedupWindowNever(clicks, k, t) == FALSE

\* shouldIncrementVisitCount, under clicksMutex
InDedupWindow(clicks, k, t) == clicks[k].valid /\ t - clicks[k].time < DedupWindow

shouldIncrementVisitCount(t) ==
  LET me == th[t]
  IN /\ me.pc = "g_dedup"
     /\ IF InDedupWindow(recentClicks, me.key, now)
          THEN /\ Finish(t, "ok", me)
               /\ recentClicks' = recentClicks
          ELSE /\ recentClicks' = [recentClicks EXCEPT ![me.key] = SomeTime(now)]
               /\ th' = [th EXCEPT ![t] = [me EXCEPT !.pc = "g_inc"]]
     /\ unprunedClicks' = IF InDedupWindow(unprunedClicks, me.key, now)
                            THEN unprunedClicks
                            ELSE [unprunedClicks EXCEPT ![me.key] = SomeTime(now)]
     /\ UNCHANGED <<now, store, cache, stats, nextID, ops, ticks, faults, hits, expiredSince, budget, lifecycle>>

\* variant of incrementError in which the increment's error fails the call
incrementErrorReturned == "ErrInternalError"

\* GetLongURL when IncrementVisitCount has returned an error: a warning is
\* logged and the call goes on to return the long URL
incrementError == "ok"

\* the IncrementVisitCount call of GetLongURL; its error is only logged
incrementVisit(t) ==
  LET me == th[t]
  IN /\ me.pc = "g_inc"
     /\ \E ok \in Outcomes :
          /\ Fault(ok)
          /\ IF ok /\ HasKey(store, me.key)
               THEN /\ store' = IncrementVisitCount(store, me.key, now)
                    /\ hits' = Hit(hits, TheRow(store, me.key).id)
                    /\ Finish(t, "ok", [me EXCEPT !.counted = TRUE])
               ELSE /\ store' = store
                    /\ hits' = hits
                    /\ Finish(t, incrementError, [me EXCEPT !.faulted = @ \/ ~ok])
     /\ UNCHANGED <<now, cache, recentClicks, unprunedClicks, stats, nextID, ops, ticks, expiredSince, budget, lifecycle>>

\* short keys a request may carry that are not well formed: empty, and with
\* a character outside letters, digits, hyphen and underscore
InvalidKeys == {"", "k!"}

\* valueobject.NewShortKey: the error for key k, or "ok"
NewShortKey(k) ==
  IF k = "" THEN "ErrEmptyShortKey"
  ELSE IF k \notin Keys THEN "ErrInvalidShortKey"
  ELSE "ok"

\* GetLongURL called with a key that is not well formed
GetLongURLBeginInvalid(t, k) ==
  /\ CanBegin(t)
  /\ NewShortKey(k) # "ok"
  /\ ops' = ops + 1
  /\ th' = [th EXCEPT ![t] = [Idle EXCEPT !.pc = "g_key", !.op = "GetLongURL",
                                       !.key = k, !.b_state = "invalid"]]
  /\ UNCHANGED <<now, store, cache, recentClicks, unprunedClicks, stats, nextID, ticks, faults, hits, expiredSince, budget, lifecycle>>

\* GetLongURL returns the error of NewShortKey
rejectShortKey(t) ==
  LET me == th[t]
  IN /\ me.pc = "g_key"
     /\ Finish(t, NewShortKey(me.key), me)
     /\ UNCHANGED <<now, store, cache, recentClicks, unprunedClicks, stats, nextID, ops, ticks, faults, hits, expiredSince, budget, lifecycle>>

\* variant of PruneCutoff in which pruning reaches into the dedup window
PruneCutoffEarly(t) == t - 1

\* cleanupRecentClicks: cutoff := time.Now().Add(-5 * time.Second)
PruneCutoff(t) == t - PruneAge

\* cleanupRecentClicks, one round of its loop under clicksMutex: every entry
\* whose timestamp is before the cutoff is deleted
cleanupRecentClicks ==
  /\ recentClicks' = [k \in Keys |->
                        IF recentClicks[k].valid /\ recentClicks[k].time < PruneCutoff(now)
                          THEN NullTime
                          ELSE recentClicks[k]]
  /\ UNCHANGED <<now, store, cache, unprunedClicks, stats, nextID, th, ops, ticks, faults, hits, expiredSince, budget, lifecycle>>

\* the clock, in steps of seconds
TickSpan ==
  /\ ticks < MaxSeconds
  /\ \E d \in PruneTickSteps :
       /\ now' = now + d
       /\ cache' = Evict(cache, now + d)
  /\ ticks' = ticks + 1
  /\ UNCHANGED <<store, recentClicks, unprunedClicks, stats, nextID, th, ops, faults, hits, expiredSince, budget, lifecycle>>

(***************************************************************************)
(* Shorten.                                                                *)
(***************************************************************************)
\* variant of SetExpiration in which a request without TTL gets no default
SetExpirationNoDefault(ttlSeconds, t) == SomeTime(t + ttlSeconds)

\* createAndConfigureURL: the expiration of a new record created at t
SetExpiration(ttlSeconds, t) ==
  SomeTime(t + (IF ttlSeconds = 0 THEN DefaultTTLSeconds ELSE ttlSeconds))

\* URLRepository.FindByLongURL: the newest row with this long URL, if any
FindByLongURL(st, url) ==
  {r \in st : /\ r.longURL = url
              /\ \A r2 \in st : r2.longURL = url => r2.createdAt <= r.createdAt}

\* Shorten up to the choice of the path: ck = "" asks for a generated key
ShortenBegin(t, url, ck, ttlSeconds) ==
  /\ CanBegin(t)
  /\ ops' = ops + 1
  /\ th' = [th EXCEPT ![t] = [Idle EXCEPT !.pc = IF ck = "" THEN "s_findlong" ELSE "s_exists",
                                       !.op = "Shorten", !.key = ck, !.url = url,
                                       !.ttl = ttlSeconds, !.custom = (ck # "")]]
  /\ UNCHANGED <<now, store, cache, recentClicks, unprunedClicks, stats, nextID, ticks, faults, hits, expiredSince, budget, lifecycle>>

\* a further Shorten request of a caller that sends requests without end:
\* as ShortenBegin, the calls not being counted
ShortenAgain(t, url, ck, ttlSeconds) ==
  /\ Free(t)
  /\ \E i \in 1..budget.threads : ThreadSeq[i] = t
  /\ th' = [th EXCEPT ![t] = [Idle EXCEPT !.pc = IF ck = "" THEN "s_findlong" ELSE "s_exists",
                                       !.op = "Shorten", !.key = ck, !.url = url,
                                       !.ttl = ttlSeconds, !.custom = (ck # "")]]
  /\ UNCHANGED <<now, store, cache, recentClicks, unprunedClicks, stats, nextID, ops, ticks, faults, hits, expiredSince, budget, lifecycle>>

\* findExistingURL, then generateNewKey and createAndConfigureURL.  The
\* generator is opaque: it may hand out any key.
findExistingURL(t) ==
  LET me == th[t]
  IN /\ me.pc = "s_findlong"
     /\ \E ok \in Outcomes :
          /\ Fault(ok)
          /\ \/ /\ ok
                /\ \E r \in FindByLongURL(store, me.url) :
                     /\ ~IsExpired(r.expiresAt, now)
                     /\ Finish(t, "ok", [me EXCEPT !.key = r.shortKey, !.exp = r.expiresAt,
                                                   !.created = r.createdAt, !.id = r.id])
                /\ nextID' = nextID
             \/ /\ \/ ~ok
                   \/ FindByLongURL(store, me.url) = {}
                   \/ \E r \in FindByLongURL(store, me.url) : IsExpired(r.expiresAt, now)
                /\ \E k \in Keys :
                     th' = [th EXCEPT ![t] = [me EXCEPT !.pc = "s_save", !.key = k,
                                                        !.id = nextID, !.created = now,
                                                        !.exp = SetExpiration(me.ttl, now),
                                                        !.faulted = @ \/ ~ok]]
                /\ nextID' = nextID + 1
     /\ UNCHANGED <<now, store, cache, recentClicks, unprunedClicks, stats, ops, ticks, hits, expiredSince, budget, lifecycle>>

\* processCustomKey: ExistsByShortKey, GenerateID, then createAndConfigureURL;
\* GenerateID returns id and leaves the generator at next
processCustomKeyWith(t, id, next) ==
  LET me == th[t]
  IN /\ me.pc = "s_exists"
     /\ \E ok \in Outcomes :
          /\ Fault(ok)
          /\ IF ~ok
               THEN /\ Finish(t, "ErrInternalError", [me EXCEPT !.faulted = TRUE])
                    /\ nextID' = nextID
             ELSE IF HasKey(store, me.key)
               THEN /\ Finish(t, "ErrCustomKeyExists", me)
                    /\ nextID' = nextID
             ELSE /\ th' = [th EXCEPT ![t] = [me EXCEPT !.pc = "s_save", !.id = id,
                                                        !.created = now,
                                                        !.exp = SetExpiration(me.ttl, now)]]
                  /\ nextID' = next
     /\ UNCHANGED <<now, store, cache, recentClicks, unprunedClicks, stats, ops, ticks, hits, expiredSince, budget, lifecycle>>

\* the generator hands out the identifiers one after the other
processCustomKey(t) == processCustomKeyWith(t, nextID, nextID + 1)

\* the least identifier that no record of the store carries
UnusedID == CHOOSE i \in IDs : i \notin RowIDs(store) /\ \A j \in IDs : j < i => j \in RowIDs(store)

\* the same for a caller that sends requests without end: identifiers are
\* only compared, so that one that has left the store stands for a new one
processCustomKeyReusing(t) == processCustomKeyWith(t, UnusedID, nextID)

\* URLRepository.Save: INSERT, refused when the short key is taken, and the
\* first lines of cacheURL
Save(t) ==
  LET me == th[t]
  IN /\ me.pc = "s_save"
     /\ \E ok \in Outcomes :
          /\ Fault(ok)
          /\ IF ok /\ ~HasKey(store, me.key)
               THEN /\ store' = store \cup {Row(me.id, me.key, me.url, me.created, me.exp)}
                    /\ th' = [th EXCEPT ![t] = [me EXCEPT !.pc = "s_cache",
                                                          !.ttl = CacheTTL(me.exp, now)]]
               ELSE /\ store' = store
                    /\ Finish(t, "ErrSave", [me EXCEPT !.faulted = @ \/ ~ok])
     /\ UNCHANGED <<now, cache, recentClicks, unprunedClicks, stats, nextID, ops, ticks, hits, expiredSince, budget, lifecycle>>

\* cacheURL: the SetCacheEntry call
cacheURL(t) ==
  LET me == th[t]
  IN /\ me.pc = "s_cache"
     /\ \E ok \in Outcomes :
          /\ Fault(ok)
          /\ IF ok
               THEN /\ cache' = SetCacheEntry(cache, me.key, me.url, me.exp, me.ttl, now)
                    /\ Finish(t, "ok", me)
               ELSE /\ cache' = cache
                    /\ th' = [th EXCEPT ![t] = [me EXCEPT !.pc = "s_fallback",
                                                          !.faulted = TRUE]]
     /\ UNCHANGED <<now, store, recentClicks, unprunedClicks, stats, nextID, ops, ticks, hits, expiredSince, budget, lifecycle>>

\* cacheURL: the fallback Set call with the bare long URL
cacheURLFallback(t) ==
  LET me == th[t]
  IN /\ me.pc = "s_fallback"
     /\ \E ok \in Outcomes :
          /\ Fault(ok)
          /\ cache' = IF ok THEN SetRaw(cache, me.key, me.url, me.ttl, now) ELSE cache
          /\ Finish(t, "ok", me)
     /\ UNCHANGED <<now, store, recentClicks, unprunedClicks, stats, nextID, ops, ticks, hits, expiredSince, budget, lifecycle>>

(***************************************************************************)
(* IncrementVisitCount called on its own (another caller of the store).    *)
(***************************************************************************)
IncrementBegin(t, k) ==
  /\ CanBegin(t)
  /\ ops' = ops + 1
  /\ th' = [th EXCEPT ![t] = [Idle EXCEPT !.pc = "i_inc", !.op = "IncrementVisitCount",
                                       !.key = k,
                                       !.b_state = KeyState(store, k, now)]]
  /\ UNCHANGED <<now, store, cache, recentClicks, unprunedClicks, stats, nextID, ticks, faults, hits, expiredSince, budget, lifecycle>>

IncrementCall(t) ==
  LET me == th[t]
  IN /\ me.pc = "i_inc"
     /\ \E ok \in Outcomes :
          /\ Fault(ok)
          /\ IF ~ok
               THEN /\ store' = store
                    /\ hits' = hits
                    /\ Finish(t, "ErrStore", [me EXCEPT !.faulted = TRUE])
             ELSE IF ~HasKey(store, me.key)
               THEN /\ store' = IncrementVisitCount(store, me.key, now)
                    /\ hits' = hits
                    /\ Finish(t, "ErrNotFound", me)
             ELSE /\ store' = IncrementVisitCount(store, me.key, now)
                  /\ hits' = Hit(hits, TheRow(store, me.key).id)
                  /\ Finish(t, "ok", [me EXCEPT !.counted = TRUE])
     /\ UNCHANGED <<now, cache, recentClicks, unprunedClicks, stats, nextID, ops, ticks, expiredSince, budget, lifecycle>>

(***************************************************************************)
(* The reaper: CleanupExpiredBatch.                                        *)
(***************************************************************************)
Min(a, b) == IF a <= b THEN a ELSE b

Range(f) == {f[i] : i \in DOMAIN f}

\* variant of Eligible in which the cutoff instant itself is taken as eligible
EligibleInclusive(st, before) == {r \in st : r.expiresAt.valid /\ r.expiresAt.time <= before}

\* WHERE expires_at IS NOT NULL AND expires_at < $1
Eligible(st, before) == {r \in st : r.expiresAt.valid /\ r.expiresAt.time < before}

\* variant of FindExpiredURLs in which the query has no ORDER BY
FindExpiredURLsUnordered(st, before, maxResults) ==
  LET E == Eligible(st, before)
      m == Min(maxResults, Cardinality(E))
  IN {s \in [1..m -> E] : \A i, j \in 1..m : i # j => s[i] # s[j]}

\* URLRepository.FindExpiredURLs: ... ORDER BY expires_at ASC LIMIT $2; the
\* results the query may return (rows of equal expires_at come in any order)
FindExpiredURLs(st, before, maxResults) ==
  LET E == Eligible(st, before)
      m == Min(maxResults, Cardinality(E))
  IN {s \in [1..m -> E] :
        /\ \A i, j \in 1..m : i # j => s[i] # s[j]
        /\ \A i, j \in 1..m : i < j => s[i].expiresAt.time <= s[j].expiresAt.time
        /\ \A r \in E \ Range(s) : \A i \in 1..m : s[i].expiresAt.time <= r.expiresAt.time}

\* variant of DeleteExpiredBatch in which the statement removes no row
DeleteExpiredBatchNone(st, shortKeys) == st

\* URLRepository.DeleteExpiredBatch: DELETE FROM urls WHERE short_key = ANY($1)
DeleteExpiredBatch(st, shortKeys) == {r \in st : r.shortKey \notin Range(shortKeys)}

\* variant of rowsAffectedMismatch in which a short row count is returned as an error
rowsAffectedMismatchFails(st, shortKeys) ==
  Cardinality({r \in st : r.shortKey \in Range(shortKeys)}) # Len(shortKeys)

\* DeleteExpiredBatch: fewer rows affected than keys requested is only logged
rowsAffectedMismatch(st, shortKeys) == FALSE

\* variant of updateStats in which every run is counted as successful
updateStatsAlwaysOK(s, cleaned, failed) ==
  [s EXCEPT !.LastBatchSize = cleaned,
            !.TotalCleaned = @ + cleaned,
            !.SuccessfulRuns = @ + 1]

\* variant of updateStats in which every run is counted as failed
updateStatsAlwaysFailed(s, cleaned, failed) ==
  [s EXCEPT !.LastBatchSize = cleaned,
            !.TotalCleaned = @ + cleaned,
            !.FailedRuns = @ + 1]

\* variant of updateStats in which the total is not accumulated
updateStatsNoTotal(s, cleaned, failed) ==
  [s EXCEPT !.LastBatchSize = cleaned,
            !.TotalCleaned = cleaned,
            !.FailedRuns = IF failed THEN @ + 1 ELSE @,
            !.SuccessfulRuns = IF failed THEN @ ELSE @ + 1]

\* updateStats
updateStats(s, cleaned, failed) ==
  [s EXCEPT !.LastBatchSize = cleaned,
            !.TotalCleaned = @ + cleaned,
            !.FailedRuns = IF failed THEN @ + 1 ELSE @,
            !.SuccessfulRuns = IF failed THEN @ ELSE @ + 1]

\* updateStats without its run counters: a reaper that runs without end
\* counts without end, and no step of the reaper reads what it has counted
updateStatsUncounted(s, cleaned, failed) == [s EXCEPT !.LastBatchSize = cleaned]

\* the statistics after a run, kept with their counters or without
recordStats(counted, s, cleaned, failed) ==
  IF counted THEN updateStats(s, cleaned, failed) ELSE updateStatsUncounted(s, cleaned, failed)

\* the previous call of the caller on thread t, when it was a CleanupExpiredBatch
PrevCall(t) ==
  IF th[t].pc = "done" /\ th[t].op = "CleanupExpiredBatch"
    THEN [called |-> TRUE, ok |-> th[t].result = "ok", full |-> th[t].full,
          elig |-> th[t].elig]
    ELSE NoPrev

\* CleanupExpiredBatch up to the FindExpiredURLs call: the cutoff is fixed here
CleanupBegin(t, batchSize) ==
  /\ CanBegin(t)
  /\ ops' = ops + 1
  /\ th' = [th EXCEPT ![t] = [Idle EXCEPT !.pc = "c_find", !.op = "CleanupExpiredBatch",
                                       !.created = now,
                                       !.cutoff = now - BufferTime,
                                       !.count = batchSize,
                                       !.prev = PrevCall(t)]]
  /\ UNCHANGED <<now, store, cache, recentClicks, unprunedClicks, stats, nextID, ticks, faults, hits, expiredSince, budget, lifecycle>>

\* the FindExpiredURLs call and what follows it up to DeleteExpiredBatch
CleanupFindWith(t, counted) ==
  LET me == th[t]
  IN /\ me.pc = "c_find"
     /\ \E ok \in Outcomes :
          /\ Fault(ok)
          /\ IF ~ok
               THEN /\ stats' = recordStats(counted, stats, 0, TRUE)
                    /\ Finish(t, "error", [me EXCEPT !.count = 0, !.faulted = TRUE])
               ELSE \E found \in FindExpiredURLs(store, me.cutoff, me.count) :
                      LET E == Eligible(store, me.cutoff)
                          m == [me EXCEPT !.elig = RowIDs(E),
                                          !.full = Len(found) = Cardinality(E)]
                      IN IF Len(found) = 0
                           THEN /\ stats' = recordStats(counted, stats, 0, FALSE)
                                /\ Finish(t, "ok", [m EXCEPT !.count = 0])
                           ELSE /\ stats' = stats
                                /\ th' = [th EXCEPT ![t] =
                                       [m EXCEPT !.pc = "c_delete",
                                                 !.batch = [i \in 1..Len(found) |-> found[i].shortKey],
                                                 !.cand = {found[i].id : i \in 1..Len(found)},
                                                 !.count = Len(found)]]
     /\ UNCHANGED <<now, store, cache, recentClicks, unprunedClicks, nextID, ops, ticks, hits, expiredSince, budget, lifecycle>>

\* the call as the program makes it: the statistics are kept by updateStats
CleanupFind(t) == CleanupFindWith(t, TRUE)

\* the DeleteExpiredBatch call
CleanupDeleteWith(t, counted) ==
  LET me == th[t]
  IN /\ me.pc = "c_delete"
     /\ \E ok \in Outcomes :
          /\ Fault(ok)
          /\ IF ~ok \/ rowsAffectedMismatch(store, me.batch)
               THEN /\ stats' = recordStats(counted, stats, 0, TRUE)
                    /\ store' = store
                    /\ Finish(t, "error", [me EXCEPT !.count = 0, !.faulted = TRUE])
               ELSE /\ stats' = stats
                    /\ store' = DeleteExpiredBatch(store, me.batch)
                    /\ th' = [th EXCEPT ![t] = [me EXCEPT !.pc = "c_evict", !.id = 1]]
     /\ UNCHANGED <<now, cache, recentClicks, unprunedClicks, nextID, ops, ticks, hits, expiredSince, budget, lifecycle>>

\* the DeleteExpiredBatch call, the statistics kept by updateStats
CleanupDelete(t) == CleanupDeleteWith(t, TRUE)

\* cleanupCacheEntries: one cache Delete per key of the batch, errors only
\* logged; after the last one, updateStats and return
cleanupCacheEntriesWith(t, counted) ==
  LET me == th[t]
      i  == me.id
  IN /\ me.pc = "c_evict"
     /\ \E ok \in Outcomes :
          /\ Fault(ok)
          /\ cache' = IF ok THEN CacheDelete(cache, me.batch[i]) ELSE cache
          /\ IF i < Len(me.batch)
               THEN /\ th' = [th EXCEPT ![t] = [me EXCEPT !.id = i + 1,
                                                          !.faulted = @ \/ ~ok]]
                    /\ stats' = stats
               ELSE /\ Finish(t, "ok", [me EXCEPT !.faulted = @ \/ ~ok])
                    /\ stats' = recordStats(counted, stats, Len(me.batch), FALSE)
     /\ UNCHANGED <<now, store, recentClicks, unprunedClicks, nextID, ops, ticks, hits, expiredSince, budget, lifecycle>>

\* cleanupCacheEntries, the statistics kept by updateStats
cleanupCacheEntries(t) == cleanupCacheEntriesWith(t, TRUE)

(***************************************************************************)
(* The life cycle of the reaper: StartCleanup, StopCleanup, cleanupLoop.   *)
(***************************************************************************)
\* variant of Disabled in which the Enabled flag is not consulted
DisabledNever(cfg) == FALSE

\* StartCleanup: if !s.config.Enabled
Disabled(cfg) == ~cfg.Enabled

\* variant of WaitDone in which Wait returns at once
WaitDoneAtOnce(n) == TRUE

\* sync.WaitGroup.Wait returns once the counter is zero
WaitDone(n) == n = 0

\* tickers created so far
Made == {i \in 1..MaxStarts : tickerC[i].made}

\* StartCleanup calls that may still create a ticker
Starting == {t \in Threads : th[t].op = "StartCleanup" /\ th[t].pc \in {"st_cas", "st_ticker"}}

StartBegin(t) ==
  /\ CanBegin(t)
  /\ Cardinality(Made) + Cardinality(Starting) < MaxStarts
  /\ ops' = ops + 1
  /\ th' = [th EXCEPT ![t] = [Idle EXCEPT !.pc = "st_cas", !.op = "StartCleanup"]]
  /\ UNCHANGED <<now, store, cache, recentClicks, unprunedClicks, stats, nextID, ticks, faults, hits, expiredSince, budget, lifecycle>>

\* StartCleanup: the Enabled test and atomic.CompareAndSwapInt32(&s.running, 0, 1)
StartCAS(t) ==
  LET me == th[t]
  IN /\ me.pc = "st_cas"
     /\ IF Disabled(config)
          THEN /\ Finish(t, "ok", me)
               /\ running' = running
        ELSE IF running = 0
          THEN /\ running' = 1
               /\ th' = [g \in Goroutines |->
                           IF g = t THEN [me EXCEPT !.pc = "st_ticker"]
                           ELSE IF th[g].op = "StopCleanup" /\ th[g].pc \notin {"sp_cas", "done"}
                             THEN [th[g] EXCEPT !.restarted = TRUE]
                           ELSE th[g]]
        ELSE /\ running' = running
             /\ Finish(t, "error", me)
     /\ UNCHANGED <<now, store, cache, recentClicks, unprunedClicks, stats, nextID, ops, ticks, faults, hits,
                    expiredSince, budget, done, ticker, tickerC, wg, config>>

\* StartCleanup: s.ticker = time.NewTicker(s.config.CleanupInterval)
StartTicker(t) ==
  LET me == th[t]
      i  == Cardinality(Made) + 1
  IN /\ me.pc = "st_ticker"
     /\ ticker' = i
     /\ tickerC' = [tickerC EXCEPT ![i] = [NoTicker EXCEPT !.made = TRUE]]
     /\ th' = [th EXCEPT ![t] = [me EXCEPT !.pc = "st_go"]]
     /\ UNCHANGED <<now, store, cache, recentClicks, unprunedClicks, stats, nextID, ops, ticks, faults, hits,
                    expiredSince, budget, running, done, wg, config>>

\* goroutines launched so far
Launched == {l \in Loops : th[l].pc # "idle"}

\* StartCleanup: s.wg.Add(1) and the go statement
StartGo(t) ==
  LET me == th[t]
      l  == LoopSeq[Cardinality(Launched) + 1]
  IN /\ me.pc = "st_go"
     /\ wg' = wg + 1
     /\ th' = [th EXCEPT ![t] = [me EXCEPT !.pc = "st_stats"],
                         ![l] = [Idle EXCEPT !.pc = "l_enter", !.op = "cleanupLoop"]]
     /\ UNCHANGED <<now, store, cache, recentClicks, unprunedClicks, stats, nextID, ops, ticks, faults, hits,
                    expiredSince, budget, running, done, ticker, tickerC, config>>

\* StartCleanup: s.stats.IsRunning = true under statsMutex, return nil
StartStats(t) ==
  LET me == th[t]
  IN /\ me.pc = "st_stats"
     /\ stats' = [stats EXCEPT !.IsRunning = TRUE]
     /\ Finish(t, "ok", me)
     /\ UNCHANGED <<now, store, cache, recentClicks, unprunedClicks, nextID, ops, ticks, faults, hits, expiredSince, budget, lifecycle>>

StopBegin(t) ==
  /\ CanBegin(t)
  /\ ops' = ops + 1
  /\ th' = [th EXCEPT ![t] = [Idle EXCEPT !.pc = "sp_cas", !.op = "StopCleanup"]]
  /\ UNCHANGED <<now, store, cache, recentClicks, unprunedClicks, stats, nextID, ticks, faults, hits, expiredSince, budget, lifecycle>>

\* StopCleanup: atomic.CompareAndSwapInt32(&s.running, 1, 0)
StopCAS(t) ==
  LET me == th[t]
  IN /\ me.pc = "sp_cas"
     /\ IF running = 1
          THEN /\ running' = 0
               /\ th' = [th EXCEPT ![t] = [me EXCEPT !.pc = "sp_tstop"]]
          ELSE /\ running' = running
               /\ Finish(t, "error", me)
     /\ UNCHANGED <<now, store, cache, recentClicks, unprunedClicks, stats, nextID, ops, ticks, faults, hits,
                    expiredSince, budget, done, ticker, tickerC, wg, config>>

\* StopCleanup: if s.ticker != nil { s.ticker.Stop() }
StopTicker(t) ==
  LET me == th[t]
  IN /\ me.pc = "sp_tstop"
     /\ tickerC' = IF ticker # 0 THEN [tickerC EXCEPT ![ticker].stopped = TRUE] ELSE tickerC
     /\ th' = [th EXCEPT ![t] = [me EXCEPT !.pc = "sp_close"]]
     /\ UNCHANGED <<now, store, cache, recentClicks, unprunedClicks, stats, nextID, ops, ticks, faults, hits,
                    expiredSince, budget, running, done, ticker, wg, config>>

\* StopCleanup: close(s.done); closing a closed channel panics
StopClose(t) ==
  LET me == th[t]
  IN /\ me.pc = "sp_close"
     /\ IF done
          THEN Finish(t, "panic", me)
          ELSE th' = [th EXCEPT ![t] = [me EXCEPT !.pc = "sp_wait"]]
     /\ done' = TRUE
     /\ UNCHANGED <<now, store, cache, recentClicks, unprunedClicks, stats, nextID, ops, ticks, faults, hits,
                    expiredSince, budget, running, ticker, tickerC, wg, config>>

\* StopCleanup: s.wg.Wait()
StopWait(t) ==
  LET me == th[t]
  IN /\ me.pc = "sp_wait"
     /\ WaitDone(wg)
     /\ th' = [th EXCEPT ![t] = [me EXCEPT !.pc = "sp_stats"]]
     /\ UNCHANGED <<now, store, cache, recentClicks, unprunedClicks, stats, nextID, ops, ticks, faults, hits, expiredSince, budget, lifecycle>>

\* StopCleanup: s.stats.IsRunning = false under statsMutex, return nil
StopStats(t) ==
  LET me == th[t]
  IN /\ me.pc = "sp_stats"
     /\ stats' = [stats EXCEPT !.IsRunning = FALSE]
     /\ Finish(t, "ok", me)
     /\ UNCHANGED <<now, store, cache, recentClicks, unprunedClicks, nextID, ops, ticks, faults, hits, expiredSince, budget, lifecycle>>

\* the runtime delivers a tick of a live ticker; a tick is dropped when one waits
TickerFire(i) ==
  /\ tickerC[i].made
  /\ ~tickerC[i].stopped
  /\ ~tickerC[i].pending
  /\ tickerC[i].fired < MaxFires
  /\ tickerC' = [tickerC EXCEPT ![i].pending = TRUE, ![i].fired = @ + 1]
  /\ UNCHANGED <<now, store, cache, recentClicks, unprunedClicks, stats, nextID, th, ops, ticks, faults, hits,
                 expiredSince, budget, running, done, ticker, wg, config>>

\* variant of LoopContinues in which the loop ends after a failed run
LoopContinuesOnSuccess(res) == res = "ok"

\* cleanupLoop after CleanupExpiredBatch has returned: the error is logged
\* and the for loop goes round again
LoopContinues(res) == TRUE

\* the runtime delivers tick after tick of a live ticker, without end; the
\* ticks are counted up to MaxLoopTicks
TickerRefire(i) ==
  /\ tickerC[i].made
  /\ ~tickerC[i].stopped
  /\ ~tickerC[i].pending
  /\ tickerC' = [tickerC EXCEPT ![i].pending = TRUE, ![i].fired = Min(@ + 1, MaxLoopTicks)]
  /\ UNCHANGED <<now, store, cache, recentClicks, unprunedClicks, stats, nextID, th, ops, ticks, faults, hits,
                 expiredSince, budget, running, done, ticker, wg, config>>

\* the runtime delivers a tick of a live ticker, up to n ticks per ticker
TickerFireUpTo(i, n) ==
  /\ tickerC[i].made
  /\ ~tickerC[i].stopped
  /\ ~tickerC[i].pending
  /\ tickerC[i].fired < n
  /\ tickerC' = [tickerC EXCEPT ![i].pending = TRUE, ![i].fired = @ + 1]
  /\ UNCHANGED <<now, store, cache, recentClicks, unprunedClicks, stats, nextID, th, ops, ticks, faults, hits,
                 expiredSince, budget, running, done, ticker, wg, config>>

\* cleanupLoop: entering the select evaluates s.ticker.C
LoopEnter(l) ==
  LET me == th[l]
  IN /\ me.pc \in {"l_enter", "done"}
     /\ me.pc = "done" => LoopContinues(me.result)
     /\ th' = [th EXCEPT ![l] = [Idle EXCEPT !.pc = "l_select", !.op = "cleanupLoop",
                                            !.id = ticker]]
     /\ UNCHANGED <<now, store, cache, recentClicks, unprunedClicks, stats, nextID, ops, ticks, faults, hits, expiredSince, budget, lifecycle>>

\* cleanupLoop: the select takes a ready case, any one when both are ready;
\* case <-s.done returns, and the deferred s.wg.Done() runs
LoopSelect(l) ==
  LET me == th[l]
  IN /\ me.pc = "l_select"
     /\ \/ /\ done
           /\ th' = [th EXCEPT ![l] = [me EXCEPT !.pc = "l_exit"]]
           /\ wg' = wg - 1
           /\ tickerC' = tickerC
        \/ /\ tickerC[me.id].pending
           /\ th' = [th EXCEPT ![l] = [me EXCEPT !.pc = "l_check"]]
           /\ wg' = wg
           /\ tickerC' = [tickerC EXCEPT ![me.id].pending = FALSE]
     /\ UNCHANGED <<now, store, cache, recentClicks, unprunedClicks, stats, nextID, ops, ticks, faults, hits,
                    expiredSince, budget, running, done, ticker, config>>

\* cleanupLoop on a tick: return when running is 0, else call
\* CleanupExpiredBatch(cleanupCtx, s.config.BatchSize)
LoopCheck(l) ==
  LET me == th[l]
  IN /\ me.pc = "l_check"
     /\ IF running = 0
          THEN /\ th' = [th EXCEPT ![l] = [me EXCEPT !.pc = "l_exit"]]
               /\ wg' = wg - 1
          ELSE /\ th' = [th EXCEPT ![l] = [Idle EXCEPT !.pc = "c_find",
                                                 !.op = "CleanupExpiredBatch",
                                                 !.created = now,
                                                 !.cutoff = now - BufferTime,
                                                 !.count = config.BatchSize]]
               /\ wg' = wg
     /\ UNCHANGED <<now, store, cache, recentClicks, unprunedClicks, stats, nextID, ops, ticks, faults, hits,
                    expiredSince, budget, running, done, ticker, tickerC, config>>

(***************************************************************************)
(* Specifications.                                                         *)
(***************************************************************************)
\* rows found in the table at start-up
SeedRow(id, k, exp) ==
  [id |-> id, shortKey |-> k, longURL |-> "u0", createdAt |-> -100000,
   expiresAt |-> exp, visitCount |-> 0, lastAccessedAt |-> NullTime]

\* an empty table; a row that expired two hours ago and a row that expired
\* exactly BufferTime ago; a row that expired long ago and a row that never
\* expires
SeedStores ==
  { {},
    {SeedRow(1, "k1", SomeTime(-7200)), SeedRow(2, "k2", SomeTime(-3600))},
    {SeedRow(1, "k1", SomeTime(-9000)), SeedRow(2, "k2", NullTime)} }

\* NewBackgroundURLCleanupService: Stopped, done open, no ticker
InitReaper ==
  /\ running = 0
  /\ done = FALSE
  /\ ticker = 0
  /\ tickerC = [i \in 1..MaxStarts |-> NoTicker]
  /\ wg = 0

InitCommon(nops, nthreads) ==
  /\ now = 0
  /\ cache = [k \in Keys |-> NoEntry]
  /\ recentClicks = [k \in Keys |-> NullTime]
  /\ unprunedClicks = [k \in Keys |-> NullTime]
  /\ stats = NoStats
  /\ nextID = 3
  /\ th = [t \in Goroutines |-> Idle]
  /\ ops = 0
  /\ ticks = 0
  /\ faults = 0
  /\ hits = [i \in IDs |-> 0]
  /\ expiredSince = [k \in Keys |-> NullTime]
  /\ budget = [ops |-> nops, threads |-> nthreads]
  /\ InitReaper

InitState(nops, nthreads) ==
  /\ InitCommon(nops, nthreads)
  /\ store \in SeedStores
  /\ config = DefaultCleanupConfig

Init == InitState(MaxOps, 2)

Next ==
  \/ Tick
  \/ \E t \in Threads, k \in Keys : GetLongURLBegin(t, k)
  \/ \E t \in Threads : tryGetFromCache(t)
  \/ \E t \in Threads : handleCacheMiss(t)
  \/ \E t \in Threads : writeTombstone(t)
  \/ \E t \in Threads : cacheValidURL(t)
  \/ \E t \in Threads : shouldIncrementVisitCount(t)
  \/ \E t \in Threads : incrementVisit(t)
  \/ \E t \in Threads, u \in URLs, ck \in Keys \cup {""}, s \in TTLInputs : ShortenBegin(t, u, ck, s)
  \/ \E t \in Threads : findExistingURL(t)
  \/ \E t \in Threads : processCustomKey(t)
  \/ \E t \in Threads : Save(t)
  \/ \E t \in Threads : cacheURL(t)
  \/ \E t \in Threads : cacheURLFallback(t)
  \/ \E t \in Threads, k \in Keys : IncrementBegin(t, k)
  \/ \E t \in Threads : IncrementCall(t)
  \/ \E t \in Threads, n \in BatchSizes : CleanupBegin(t, n)
  \/ \E t \in Threads : CleanupFind(t)
  \/ \E t \in Threads : CleanupDelete(t)
  \/ \E t \in Threads : cleanupCacheEntries(t)

Spec == Init /\ [][Next]_vars

\* the long URL of the next shorten request: requests alternate between two
NextURL == IF nextID % 2 = 1 THEN "u1" ELSE "u2"

NextRead ==
  \/ Tick
  \/ \E t \in Threads, k \in Keys : GetLongURLBegin(t, k)
  \/ \E t \in Threads : tryGetFromCache(t)
  \/ \E t \in Threads : handleCacheMiss(t)
  \/ \E t \in Threads : writeTombstone(t)
  \/ \E t \in Threads : cacheValidURL(t)
  \/ \E t \in Threads : shouldIncrementVisitCount(t)
  \/ \E t \in Threads : incrementVisit(t)
  \/ \E t \in Threads, ck \in Keys, s \in {-1, 3} : ShortenBegin(t, NextURL, ck, s)
  \/ \E t \in Threads : processCustomKey(t)
  \/ \E t \in Threads : Save(t)
  \/ \E t \in Threads : cacheURL(t)
  \/ \E t \in Threads : cacheURLFallback(t)

SpecRead == Init /\ [][NextRead]_vars

\* runs of MaxReapOps operations
InitReap == InitState(MaxReapOps, 2)

\* the reaper (the background loop and the manual trigger run concurrently),
\* requests that create custom keys, and reads
NextReap ==
  \/ Tick
  \/ \E t \in Threads, n \in BatchSizes : CleanupBegin(t, n)
  \/ \E t \in Threads : CleanupFind(t)
  \/ \E t \in Threads : CleanupDelete(t)
  \/ \E t \in Threads : cleanupCacheEntries(t)
  \/ \E t \in Threads, ck \in Keys, s \in {3} : ShortenBegin(t, NextURL, ck, s)
  \/ \E t \in Threads : processCustomKey(t)
  \/ \E t \in Threads : Save(t)
  \/ \E t \in Threads : cacheURL(t)
  \/ \E t \in Threads : cacheURLFallback(t)
  \/ \E t \in Threads, k \in Keys : GetLongURLBegin(t, k)
  \/ \E t \in Threads : tryGetFromCache(t)
  \/ \E t \in Threads : handleCacheMiss(t)
  \/ \E t \in Threads : writeTombstone(t)
  \/ \E t \in Threads : cacheValidURL(t)
  \/ \E t \in Threads : shouldIncrementVisitCount(t)
  \/ \E t \in Threads : incrementVisit(t)

SpecReap == InitReap /\ [][NextReap]_vars

\* the reaper, run concurrently by the background loop and the manual
\* trigger, and requests that create custom keys
NextClean ==
  \/ Tick
  \/ \E t \in Threads, n \in BatchSizes : CleanupBegin(t, n)
  \/ \E t \in Threads : CleanupFind(t)
  \/ \E t \in Threads : CleanupDelete(t)
  \/ \E t \in Threads : cleanupCacheEntries(t)
  \/ \E t \in Threads, ck \in Keys, s \in {-1, 3} : ShortenBegin(t, NextURL, ck, s)
  \/ \E t \in Threads : processCustomKey(t)
  \/ \E t \in Threads : Save(t)
  \/ \E t \in Threads : cacheURL(t)
  \/ \E t \in Threads : cacheURLFallback(t)

SpecClean == InitReap /\ [][NextClean]_vars

\* the same with MaxOps operations: room for two reaper runs and a Shorten
SpecRace == Init /\ [][NextClean]_vars

\* visit counting: IncrementVisitCount called on every thread
NextCount ==
  \/ Tick
  \/ \E t \in Threads, k \in Keys : IncrementBegin(t, k)
  \/ \E t \in Threads : IncrementCall(t)

InitCount == InitState(MaxOps, 3)

SpecCount == InitCount /\ [][NextCount]_vars

\* every operation that touches a record, one request after the other:
\* Shorten with a custom key, GetLongURL, IncrementVisitCount, the reaper
InitSeq == InitState(MaxOps, 1)

NextSeq ==
  \/ Tick
  \/ \E t \in Threads, ck \in Keys, s \in {3} : ShortenBegin(t, NextURL, ck, s)
  \/ \E t \in Threads : processCustomKey(t)
  \/ \E t \in Threads : Save(t)
  \/ \E t \in Threads : cacheURL(t)
  \/ \E t \in Threads : cacheURLFallback(t)
  \/ \E t \in Threads, k \in Keys : GetLongURLBegin(t, k)
  \/ \E t \in Threads : tryGetFromCache(t)
  \/ \E t \in Threads : handleCacheMiss(t)
  \/ \E t \in Threads : writeTombstone(t)
  \/ \E t \in Threads : cacheValidURL(t)
  \/ \E t \in Threads : shouldIncrementVisitCount(t)
  \/ \E t \in Threads : incrementVisit(t)
  \/ \E t \in Threads, k \in Keys : IncrementBegin(t, k)
  \/ \E t \in Threads : IncrementCall(t)
  \/ \E t \in Threads : CleanupBegin(t, DefaultCleanupConfig.BatchSize)
  \/ \E t \in Threads : CleanupFind(t)
  \/ \E t \in Threads : CleanupDelete(t)
  \/ \E t \in Threads : cleanupCacheEntries(t)

SpecSeq == InitSeq /\ [][NextSeq]_vars

\* Shorten requests with and without a custom key, with every TTL input, one
\* after the other
InitShorten == InitState(MaxReapOps, 1)

NextShorten ==
  \/ Tick
  \/ \E t \in Threads, u \in URLs, ck \in Keys \cup {""}, s \in TTLInputs : ShortenBegin(t, u, ck, s)
  \/ \E t \in Threads : findExistingURL(t)
  \/ \E t \in Threads : processCustomKey(t)
  \/ \E t \in Threads : Save(t)
  \/ \E t \in Threads : cacheURL(t)
  \/ \E t \in Threads : cacheURLFallback(t)

SpecShorten == InitShorten /\ [][NextShorten]_vars

\* visits to two valid keys, one after the other, while the seconds pass
InitDedup ==
  /\ InitCommon(MaxOps, 1)
  /\ store = {SeedRow(1, "k1", NullTime), SeedRow(2, "k2", SomeTime(100000))}
  /\ config = DefaultCleanupConfig

NextDedup ==
  \/ TickSecond
  \/ \E t \in Threads, k \in Keys : GetLongURLBegin(t, k)
  \/ \E t \in Threads : tryGetFromCache(t)
  \/ \E t \in Threads : handleCacheMiss(t)
  \/ \E t \in Threads : writeTombstone(t)
  \/ \E t \in Threads : cacheValidURL(t)
  \/ \E t \in Threads : shouldIncrementVisitCount(t)
  \/ \E t \in Threads : incrementVisit(t)

SpecDedup == InitDedup /\ [][NextDedup]_vars

\* the reaper's life cycle: StartCleanup and StopCleanup called from any
\* goroutine, the ticker, the loops, and the manual trigger
InitLifeOf(nthreads) ==
  /\ InitCommon(MaxLifeOps, nthreads)
  /\ store = {SeedRow(1, "k1", SomeTime(-7200)), SeedRow(2, "k2", SomeTime(-3600))}
  /\ config \in {[DefaultCleanupConfig EXCEPT !.Enabled = e] : e \in BOOLEAN}

InitLife == InitLifeOf(3)

NextLife ==
  \/ \E t \in Threads : StartBegin(t)
  \/ \E t \in Threads : StartCAS(t)
  \/ \E t \in Threads : StartTicker(t)
  \/ \E t \in Threads : StartGo(t)
  \/ \E t \in Threads : StartStats(t)
  \/ \E t \in Threads : StopBegin(t)
  \/ \E t \in Threads : StopCAS(t)
  \/ \E t \in Threads : StopTicker(t)
  \/ \E t \in Threads : StopClose(t)
  \/ \E t \in Threads : StopWait(t)
  \/ \E t \in Threads : StopStats(t)
  \/ \E i \in 1..MaxStarts : TickerFire(i)
  \/ \E l \in Loops : LoopEnter(l)
  \/ \E l \in Loops : LoopSelect(l)
  \/ \E l \in Loops : LoopCheck(l)
  \/ \E t \in Threads : CleanupBegin(t, DefaultCleanupConfig.BatchSize)
  \/ \E t \in Goroutines : CleanupFind(t)
  \/ \E t \in Goroutines : CleanupDelete(t)
  \/ \E t \in Goroutines : cleanupCacheEntries(t)

SpecLife == InitLife /\ [][NextLife]_vars

\* the same without the manual trigger: every cleanup is ticker-driven
NextLoop ==
  \/ \E t \in Threads : StartBegin(t)
  \/ \E t \in Threads : StartCAS(t)
  \/ \E t \in Threads : StartTicker(t)
  \/ \E t \in Threads : StartGo(t)
  \/ \E t \in Threads : StartStats(t)
  \/ \E t \in Threads : StopBegin(t)
  \/ \E t \in Threads : StopCAS(t)
  \/ \E t \in Threads : StopTicker(t)
  \/ \E t \in Threads : StopClose(t)
  \/ \E t \in Threads : StopWait(t)
  \/ \E t \in Threads : StopStats(t)
  \/ \E i \in 1..MaxStarts : TickerFire(i)
  \/ \E l \in Loops : LoopEnter(l)
  \/ \E l \in Loops : LoopSelect(l)
  \/ \E l \in Loops : LoopCheck(l)
  \/ \E l \in Loops : CleanupFind(l)
  \/ \E l \in Loops : CleanupDelete(l)
  \/ \E l \in Loops : cleanupCacheEntries(l)

InitLoop == InitLifeOf(2)

SpecLoop == InitLoop /\ [][NextLoop]_vars

\* values found in Redis at start-up: none; an "expired" and a "deleted"
\* tombstone written by earlier requests; a tombstone with a reason this
\* program never writes, and an entry whose expiration time has passed
SeedCaches ==
  { [k \in Keys |-> NoEntry],
    SetTombstone(SetTombstone([k \in Keys |-> NoEntry], "k1", "expired", TombstoneTTL, 0),
                 "k2", "deleted", TombstoneTTL, 0),
    SetCacheEntry(SetTombstone([k \in Keys |-> NoEntry], "k1", "purged", TombstoneTTL, 0),
                  "k2", "u0", SomeTime(-10), MinCacheTTL, 0) }

\* the read path over every kind of cache value and record, one request
\* after the other: GetLongURL with well-formed and other keys, and Shorten
\* requests that create custom keys
InitCached ==
  /\ now = 0
  /\ cache \in SeedCaches
  /\ store \in SeedStores
  /\ recentClicks = [k \in Keys |-> NullTime]
  /\ unprunedClicks = [k \in Keys |-> NullTime]
  /\ stats = NoStats
  /\ nextID = 3
  /\ th = [t \in Goroutines |-> Idle]
  /\ ops = 0
  /\ ticks = 0
  /\ faults = 0
  /\ hits = [i \in IDs |-> 0]
  /\ expiredSince = [k \in Keys |-> NullTime]
  /\ budget = [ops |-> MaxOps, threads |-> 1]
  /\ config = DefaultCleanupConfig
  /\ InitReaper

NextCached ==
  \/ Tick
  \/ \E t \in Threads, k \in Keys : GetLongURLBegin(t, k)
  \/ \E t \in Threads, k \in InvalidKeys : GetLongURLBeginInvalid(t, k)
  \/ \E t \in Threads : rejectShortKey(t)
  \/ \E t \in Threads : tryGetFromCache(t)
  \/ \E t \in Threads : handleCacheMiss(t)
  \/ \E t \in Threads : writeTombstone(t)
  \/ \E t \in Threads : cacheValidURL(t)
  \/ \E t \in Threads : shouldIncrementVisitCount(t)
  \/ \E t \in Threads : incrementVisit(t)
  \/ \E t \in Threads, ck \in Keys, s \in {-1, 3} : ShortenBegin(t, NextURL, ck, s)
  \/ \E t \in Threads : processCustomKey(t)
  \/ \E t \in Threads : Save(t)
  \/ \E t \in Threads : cacheURL(t)
  \/ \E t \in Threads : cacheURLFallback(t)

SpecCached == InitCached /\ [][NextCached]_vars

\* concurrent visits to two valid keys while the seconds pass
InitDedupRace ==
  /\ InitCommon(MaxReapOps, 2)
  /\ store = {SeedRow(1, "k1", NullTime), SeedRow(2, "k2", SomeTime(100000))}
  /\ config = DefaultCleanupConfig

SpecDedupRace == InitDedupRace /\ [][NextDedup]_vars

\* visits to two valid keys, one after the other, with the pruning goroutine
\* running at any moment between their steps
NextPrune ==
  \/ TickSpan
  \/ cleanupRecentClicks
  \/ \E t \in Threads, k \in Keys : GetLongURLBegin(t, k)
  \/ \E t \in Threads : tryGetFromCache(t)
  \/ \E t \in Threads : handleCacheMiss(t)
  \/ \E t \in Threads : writeTombstone(t)
  \/ \E t \in Threads : cacheValidURL(t)
  \/ \E t \in Threads : shouldIncrementVisitCount(t)
  \/ \E t \in Threads : incrementVisit(t)

InitPrune ==
  /\ InitCommon(MaxReapOps, 1)
  /\ store = {SeedRow(1, "k1", NullTime), SeedRow(2, "k2", SomeTime(100000))}
  /\ config = DefaultCleanupConfig

SpecPrune == InitPrune /\ [][NextPrune]_vars

\* a reaper that is started and stopped while its ticker delivers tick after
\* tick, next to read requests
InitTicks ==
  /\ InitCommon(MaxReapOps, 1)
  /\ store = {SeedRow(1, "k1", SomeTime(-7200)), SeedRow(2, "k2", NullTime)}
  /\ config = DefaultCleanupConfig

NextTicks ==
  \/ Tick
  \/ \E t \in Threads : StartBegin(t)
  \/ \E t \in Threads : StartCAS(t)
  \/ \E t \in Threads : StartTicker(t)
  \/ \E t \in Threads : StartGo(t)
  \/ \E t \in Threads : StartStats(t)
  \/ \E t \in Threads : StopBegin(t)
  \/ \E t \in Threads : StopCAS(t)
  \/ \E t \in Threads : StopTicker(t)
  \/ \E t \in Threads : StopClose(t)
  \/ \E t \in Threads : StopWait(t)
  \/ \E t \in Threads : StopStats(t)
  \/ \E i \in 1..MaxStarts : TickerFireUpTo(i, MaxLoopTicks)
  \/ \E l \in Loops : LoopEnter(l)
  \/ \E l \in Loops : LoopSelect(l)
  \/ \E l \in Loops : LoopCheck(l)
  \/ \E l \in Loops : CleanupFind(l)
  \/ \E l \in Loops : CleanupDelete(l)
  \/ \E l \in Loops : cleanupCacheEntries(l)
  \/ \E t \in Threads, k \in Keys : GetLongURLBegin(t, k)
  \/ \E t \in Threads : tryGetFromCache(t)
  \/ \E t \in Threads : handleCacheMiss(t)
  \/ \E t \in Threads : writeTombstone(t)
  \/ \E t \in Threads : cacheValidURL(t)
  \/ \E t \in Threads : shouldIncrementVisitCount(t)
  \/ \E t \in Threads : incrementVisit(t)

SpecTicks == InitTicks /\ [][NextTicks]_vars

\* the read path when the cache holds a live entry for k1 whose record is
\* gone: the state left when a reaper run deletes, by key, a record that a
\* Shorten call has just saved under a key of the run's batch, and the
\* Shorten call caches its URL after the run's eviction
InitOrphan ==
  /\ now = 0
  /\ cache = SetCacheEntry([k \in Keys |-> NoEntry], "k1", "u1", SomeTime(3), MinCacheTTL, 0)
  /\ store \in {{}, {SeedRow(2, "k2", NullTime)}}
  /\ recentClicks = [k \in Keys |-> NullTime]
  /\ unprunedClicks = [k \in Keys |-> NullTime]
  /\ stats = NoStats
  /\ nextID = 3
  /\ th = [t \in Goroutines |-> Idle]
  /\ ops = 0
  /\ ticks = 0
  /\ faults = 0
  /\ hits = [i \in IDs |-> 0]
  /\ expiredSince = [k \in Keys |-> NullTime]
  /\ budget = [ops |-> MaxReapOps, threads |-> 1]
  /\ config = DefaultCleanupConfig
  /\ InitReaper

SpecOrphan == InitOrphan /\ [][NextCached]_vars

\* one caller that starts and stops the reaper over and over, one call after
\* the other
InitRestart ==
  /\ InitCommon(MaxRestartOps, 1)
  /\ store = {SeedRow(1, "k1", SomeTime(-7200)), SeedRow(2, "k2", SomeTime(-3600))}
  /\ config = DefaultCleanupConfig

SpecRestart == InitRestart /\ [][NextLoop]_vars

\* a reaper with a batch size of one that is started and never stopped, the
\* ticker delivering tick after tick, next to a caller that keeps sending
\* Shorten requests with a custom key other than k1 and a negative
\* ttl_seconds; the store holds k1, expired two hours ago, and no two records
\* ever have the same expiration
InitEventual ==
  /\ InitCommon(MaxReapOps, 1)
  /\ store = {SeedRow(1, "k1", SomeTime(-7200))}
  /\ config = [DefaultCleanupConfig EXCEPT !.BatchSize = 1]

\* the steps of a StartCleanup call after its first
StartSteps ==
  \E t \in Threads : StartCAS(t) \/ StartTicker(t) \/ StartGo(t) \/ StartStats(t)

\* the steps of the cleanupLoop goroutines
LoopSteps ==
  \E l \in Loops :
    \/ LoopEnter(l)
    \/ LoopSelect(l)
    \/ LoopCheck(l)
    \/ CleanupFindWith(l, FALSE)
    \/ CleanupDeleteWith(l, FALSE)
    \/ cleanupCacheEntriesWith(l, FALSE)

NextEventual ==
  \/ \E t \in Threads : StartBegin(t)
  \/ \E t \in Threads : StartCAS(t)
  \/ \E t \in Threads : StartTicker(t)
  \/ \E t \in Threads : StartGo(t)
  \/ \E t \in Threads : StartStats(t)
  \/ \E i \in 1..MaxStarts : TickerRefire(i)
  \/ \E l \in Loops : LoopEnter(l)
  \/ \E l \in Loops : LoopSelect(l)
  \/ \E l \in Loops : LoopCheck(l)
  \/ \E l \in Loops : CleanupFindWith(l, FALSE)
  \/ \E l \in Loops : CleanupDeleteWith(l, FALSE)
  \/ \E l \in Loops : cleanupCacheEntriesWith(l, FALSE)
  \/ \E t \in Threads, ck \in Keys \ {"k1"}, s \in PastTTLs : ShortenAgain(t, NextURL, ck, s)
  \/ \E t \in Threads : processCustomKeyReusing(t)
  \/ \E t \in Threads : Save(t)
  \/ \E t \in Threads : cacheURL(t)
  \/ \E t \in Threads : cacheURLFallback(t)

\* the goroutines are scheduled and the ticker keeps firing: a StartCleanup
\* call that has begun goes on, a live ticker delivers its next tick, and a
\* cleanupLoop goroutine takes its next step
SpecEventual ==
  /\ InitEventual
  /\ [][NextEventual]_vars
  /\ WF_vars(StartSteps)
  /\ WF_vars(\E i \in 1..MaxStarts : TickerRefire(i))
  /\ WF_vars(LoopSteps)

(***************************************************************************)
(* Properties.                                                             *)
(***************************************************************************)
\* the call of thread t, an operation op, returns in this step
Returns(t, op) == th[t].op = op /\ th[t].pc \notin {"idle", "done"} /\ th'[t].pc = "done"

\* thread t takes a step of an operation op in this step
Steps(t, op) == th[t].op = op /\ th[t].pc \notin {"idle", "done"} /\ th'[t] # th[t]

\* C1: for any key whose store record has expiresAt in the past, GetLongURL
\* fails with ErrURLExpired, invokes neither the store's nor the cache's
\* Delete, and the record is still in the store when the call returns.
\* Stated for the calls none of whose own store and cache calls fails.
C1_ExpiredFailsWithoutDelete ==
  [][\A t \in Threads :
       /\ Steps(t, "GetLongURL") =>
            /\ RowIDs(store') = RowIDs(store)
            /\ \A k \in Keys : cache[k].present => cache'[k].present
       /\ (Returns(t, "GetLongURL") /\ th[t].b_state = "expired" /\ ~th'[t].faulted) =>
            /\ th'[t].result = "ErrURLExpired"
            /\ HasKey(store', th[t].key)]_vars

\* GetLongURL decides in this step, from the cache or from the store, that
\* the key of thread t is to be redirected
Serves(t) ==
  /\ th[t].op = "GetLongURL"
  /\ th[t].pc \in {"g_cache", "g_find"}
  /\ th'[t].pc \in {"g_dedup", "g_setcache"}

\* C2: no expired URL is ever redirected: whenever GetLongURL decides to
\* return a long URL, on a cache hit or on a cache miss and whatever the
\* write path left in the cache, the key's expiration time is null or not
\* before the current time.
C2_NoExpiredRedirect ==
  [][\A t \in Threads :
       Serves(t) => \A r \in RowsOf(store, th[t].key) : ~IsExpired(r.expiresAt, now)]_vars

\* C3: for any key whose record has expiresAt in the future or null,
\* GetLongURL returns the record's long URL, and a call outside the dedup
\* window increases the key's visitCount by exactly one.  Stated for the
\* calls none of whose own store and cache calls fails and whose record is
\* still valid when they return.
C3_ValidResolvesAndCounts ==
  [][\A t \in Threads :
       (/\ Returns(t, "GetLongURL")
        /\ th[t].b_state = "valid"
        /\ ~th'[t].faulted
        /\ KeyState(store, th[t].key, now) = "valid") =>
          /\ th'[t].result = "ok"
          /\ th'[t].url = TheRow(store, th[t].key).longURL
          /\ th[t].pc = "g_inc" =>
               TheRow(store', th[t].key).visitCount = TheRow(store, th[t].key).visitCount + 1]_vars

\* C4: concurrent IncrementVisitCount calls lose no update: a call for an
\* existing key whose UPDATE does not fail succeeds and adds one to the
\* key's visitCount, so that every record's visitCount is its initial value
\* plus the number of calls that succeeded for it.
C4_ConcurrentIncrementsAllCount ==
  /\ [](\A r \in store : r.visitCount = hits[r.id])
  /\ [][\A t \in Threads :
          (/\ Steps(t, "IncrementVisitCount")
           /\ faults' = faults
           /\ HasKey(store, th[t].key)) =>
             /\ th'[t].result = "ok"
             /\ TheRow(store', th[t].key).visitCount =
                  TheRow(store, th[t].key).visitCount + 1]_vars

\* three calls for one key, each begun while the others were in flight, have
\* all succeeded and the count is three
C4_Witness ==
  \E k \in Keys :
    /\ \A t \in Threads :
         /\ th[t].pc = "done"
         /\ th[t].op = "IncrementVisitCount"
         /\ th[t].key = k
         /\ th[t].result = "ok"
    /\ HasKey(store, k)
    /\ TheRow(store, k).visitCount = Cardinality(Threads)

\* the cache holds an "expired" tombstone for key k
HoldsExpiredTombstone(k) ==
  /\ cache[k].present
  /\ GetCacheEntry(cache[k]).IsTombstone
  /\ GetCacheEntry(cache[k]).Reason = "expired"

DeleteStep(t) ==
  th[t].op = "CleanupExpiredBatch" /\ th[t].pc = "c_delete" /\ th'[t] # th[t]

\* thread t performs the FindExpiredURLs call of its run in this step
FindStep(t) ==
  th[t].op = "CleanupExpiredBatch" /\ th[t].pc = "c_find" /\ th'[t] # th[t]

\* C6: the reaper deletes only records whose expiresAt is non-null and
\* earlier than now - bufferTime, for every interleaving of its runs with
\* Shorten requests that reuse a custom key.
C6_ReaperDeletesOnlyExpired ==
  [][\A t \in Threads :
       DeleteStep(t) =>
         \A r \in store \ store' :
           r.expiresAt.valid /\ r.expiresAt.time < now - BufferTime]_vars

\* the rows of st whose expiresAt is non-null and strictly before c
StrictlyBefore(st, c) == {r \in st : r.expiresAt.valid /\ r.expiresAt.time < c}

\* none of the keys of thread t's batch was re-created since its FindExpiredURLs
Undisturbed(t) ==
  \A r \in store : r.shortKey \in Range(th[t].batch) => r.id \in th[t].cand

\* C7: a CleanupExpiredBatch run begun at time T takes as candidates only
\* records whose expiresAt is non-null and strictly earlier than
\* T - bufferTime, all of them when batchSize allows, and its delete removes
\* the candidates and nothing else: a record whose expiresAt is null, or at
\* or after T - bufferTime (the boundary included), stays.  Stated for a
\* run none of whose keys is re-created between its find and its delete.
C7_BufferBoundary ==
  [][\A t \in Threads :
       LET c == th[t].created - BufferTime
       IN /\ (FindStep(t) /\ faults' = faults) =>
               /\ th'[t].cand \subseteq RowIDs(StrictlyBefore(store, c))
               /\ Cardinality(StrictlyBefore(store, c)) <= th[t].count =>
                    th'[t].cand = RowIDs(StrictlyBefore(store, c))
          /\ (DeleteStep(t) /\ faults' = faults /\ Undisturbed(t)) =>
               /\ \A r \in store : r \notin store' <=> r.id \in th[t].cand
               /\ store \ store' \subseteq StrictlyBefore(store, c)]_vars

\* a run has deleted a record while a record whose expiresAt is exactly the
\* run's cutoff is still in the store
C7_Witness ==
  \E t \in Threads :
    /\ th[t].pc = "done"
    /\ th[t].op = "CleanupExpiredBatch"
    /\ th[t].result = "ok"
    /\ th[t].count >= 1
    /\ \E r \in store : r.expiresAt = SomeTime(th[t].cutoff)

\* C8: concurrent CleanupExpiredBatch runs over overlapping candidates: a
\* run fails only when its own store call fails, and when a run returns
\* without error none of its candidates is in the store.
C8_ConcurrentReapingSafe ==
  [][\A t \in Threads :
       /\ (Steps(t, "CleanupExpiredBatch") /\ faults' = faults) =>
            th'[t].result # "error"
       /\ (Returns(t, "CleanupExpiredBatch") /\ th'[t].result = "ok") =>
            th'[t].cand \cap RowIDs(store') = {}]_vars

\* two runs that overlapped in time and in candidates have both returned
\* without error
C8_Witness ==
  /\ \A t \in {"t1", "t2"} :
       /\ th[t].pc = "done"
       /\ th[t].op = "CleanupExpiredBatch"
       /\ th[t].result = "ok"
  /\ th["t1"].cand \cap th["t2"].cand # {}
  /\ ops = 2

\* no record has become eligible since the previous call of thread t's caller
NoNewlyEligible(t) ==
  RowIDs(StrictlyBefore(store, th[t].cutoff)) \subseteq th[t].prev.elig

\* C9 as stated: calling CleanupExpiredBatch twice with no newly-eligible
\* records between the calls returns 0 the second time with no error, and
\* the second call leaves the store unchanged.  Stated for a first call that
\* returned no error and a second call whose store call does not fail.
C9_CleanupIdempotent_Orig ==
  [][\A t \in Threads :
       (/\ FindStep(t)
        /\ th[t].prev.called
        /\ th[t].prev.ok
        /\ NoNewlyEligible(t)
        /\ faults' = faults) =>
          /\ th'[t].pc = "done"
          /\ th'[t].result = "ok"
          /\ th'[t].count = 0
          /\ store' = store]_vars

\* C9: calling CleanupExpiredBatch twice with no newly-eligible records
\* between the calls, the first call having returned no error and having
\* taken every eligible record into its batch (batchSize did not cut the
\* batch short), returns 0 the second time with no error, and the second
\* call leaves the store unchanged.
C9_CleanupIdempotent ==
  [][\A t \in Threads :
       (/\ FindStep(t)
        /\ th[t].prev.called
        /\ th[t].prev.ok
        /\ th[t].prev.full
        /\ NoNewlyEligible(t)
        /\ faults' = faults) =>
          /\ th'[t].pc = "done"
          /\ th'[t].result = "ok"
          /\ th'[t].count = 0
          /\ store' = store]_vars

\* a second call has returned 0 after a first call that deleted records
C9_Witness ==
  \E t \in Threads :
    /\ th[t].pc = "done"
    /\ th[t].op = "CleanupExpiredBatch"
    /\ th[t].prev.called /\ th[t].prev.ok /\ th[t].prev.full
    /\ th[t].prev.elig # {}
    /\ th[t].elig = {}
    /\ th[t].result = "ok"
    /\ th[t].count = 0

\* C10: when FindExpiredURLs or DeleteExpiredBatch returns an error,
\* CleanupExpiredBatch returns (0, error), failedRuns grows by one,
\* successfulRuns and totalCleaned stay, lastBatchSize is set to 0, and the
\* run performs no cache eviction.
C10_FailedRunAccounting ==
  [][\A t \in Threads :
       (Returns(t, "CleanupExpiredBatch") /\ th'[t].result = "error") =>
          /\ th'[t].count = 0
          /\ stats'.FailedRuns = stats.FailedRuns + 1
          /\ stats'.SuccessfulRuns = stats.SuccessfulRuns
          /\ stats'.TotalCleaned = stats.TotalCleaned
          /\ stats'.LastBatchSize = 0
          /\ th[t].pc \in {"c_find", "c_delete"}
          /\ cache' = cache]_vars

\* a run has failed at DeleteExpiredBatch after an earlier run cleaned records
C10_Witness ==
  \E t \in Threads :
    /\ th[t].pc = "done"
    /\ th[t].op = "CleanupExpiredBatch"
    /\ th[t].result = "error"
    /\ th[t].cand # {}
    /\ stats.FailedRuns = 1
    /\ stats.TotalCleaned >= 1
    /\ stats.LastBatchSize = 0

\* goroutine g is inside cleanupLoop
LoopAlive(g) == th[g].pc \notin {"idle", "l_exit"}

\* goroutine g is inside CleanupExpiredBatch
InCleanup(g) == th[g].op = "CleanupExpiredBatch" /\ th[g].pc \in {"c_find", "c_delete", "c_evict"}

\* the life-cycle state that a failed StartCleanup or StopCleanup must leave alone
ReaperState == <<running, done, ticker, tickerC, wg, stats, {l \in Loops : LoopAlive(l)}>>

\* C11: with cleanup enabled, StartCleanup gets past its compare-and-swap
\* only from Stopped and StopCleanup only from Running; StartCleanup on a
\* running reaper returns an error and launches nothing, StopCleanup on a
\* stopped reaper returns an error and changes nothing; and under every
\* interleaving of concurrent calls at most one cleanupLoop goroutine exists.
C11_SingleLoop ==
  /\ [](Cardinality({l \in Loops : LoopAlive(l)}) <= 1)
  /\ [][\A t \in Threads :
          /\ (th[t].pc = "st_cas" /\ th'[t] # th[t] /\ config.Enabled) =>
               IF running = 0
                 THEN running' = 1 /\ th'[t].pc = "st_ticker"
                 ELSE th'[t].result = "error" /\ ReaperState' = ReaperState
          /\ (th[t].pc = "sp_cas" /\ th'[t] # th[t]) =>
               IF running = 1
                 THEN running' = 0 /\ th'[t].pc = "sp_tstop"
                 ELSE th'[t].result = "error" /\ ReaperState' = ReaperState]_vars

\* C12: StopCleanup blocks until the ticker-driven cleanup in flight has
\* completed: when a StopCleanup call returns, no StartCleanup having set the
\* reaper running again since the call stopped it, no cleanupLoop goroutine
\* is inside CleanupExpiredBatch, and a cleanupLoop goroutine enters
\* CleanupExpiredBatch only while the reaper is Running.
C12_StopWaitsForTick ==
  [][/\ \A t \in Threads :
          (Returns(t, "StopCleanup") /\ th'[t].result = "ok" /\ ~th[t].restarted) =>
             \A l \in Loops : ~InCleanup(l)
     /\ \A l \in Loops :
          (th[l].pc = "l_check" /\ th'[l].pc = "c_find") => running = 1]_vars

\* a StopCleanup call has returned after a ticker-driven cleanup that was in
\* flight while it waited
C12_Witness ==
  /\ \E t \in Threads :
       /\ th[t].pc = "done"
       /\ th[t].op = "StopCleanup"
       /\ th[t].result = "ok"
       /\ ~th[t].restarted
  /\ running = 0
  /\ stats.SuccessfulRuns = 1
  /\ stats.TotalCleaned = 1
  /\ ops = 2

\* C13: at most one execution of CleanupExpiredBatch is in flight per reaper
\* instance at any time, whether started by the ticker loop or by the manual
\* trigger.
C13_OneCleanupInFlight ==
  Cardinality({g \in Goroutines : InCleanup(g)}) <= 1

C15_IncrementNotFound ==
  [][\A t \in Threads :
       Steps(t, "IncrementVisitCount") =>
         /\ RowIDs(store') = RowIDs(store)
         /\ ~HasKey(store, th[t].key) =>
              /\ store' = store
              /\ th'[t].result # "ok"
              /\ faults' = faults => th'[t].result = "ErrNotFound"]_vars

\* an IncrementVisitCount call for a key whose record the reaper had deleted
\* has failed with not-found
C15_Witness ==
  \E t \in Threads :
    /\ th[t].pc = "done"
    /\ th[t].op = "IncrementVisitCount"
    /\ th[t].key = "k1"
    /\ th[t].b_state = "absent"
    /\ th[t].result = "ErrNotFound"
    /\ stats.TotalCleaned >= 1
    /\ store # {}

\* thread t runs shouldIncrementVisitCount in this step
DedupStep(t) == th[t].op = "GetLongURL" /\ th[t].pc = "g_dedup" /\ th'[t] # th[t]

\* C16: shouldIncrementVisitCount(key) returns false exactly when the key
\* has a recorded timestamp less than 3 seconds old, and it records the
\* current time for the key only when it returns true; so GetLongURL issues a
\* key's store increment at most once in any 3-second window (an increment
\* is issued only after a check that returned true, which finds the time of
\* the key's previous issue at least 3 seconds back), a skipped visit does
\* not extend the window, and visits to other keys change nothing for the key.
C16_VisitDedup ==
  [][/\ \A t \in Threads :
          /\ DedupStep(t) =>
               LET k    == th[t].key
                   last == recentClicks[k]
               IN /\ th'[t].pc \in {"done", "g_inc"}
                  /\ th'[t].pc = "done" <=> (last.valid /\ now - last.time < 3)
                  /\ th'[t].pc = "g_inc" =>
                       /\ recentClicks'[k] = SomeTime(now)
                       /\ last.valid => now - last.time >= 3
                  /\ th'[t].pc = "done" =>
                       /\ recentClicks' = recentClicks
                       /\ th'[t].result = "ok"
                       /\ store' = store
                  /\ \A k2 \in Keys \ {k} : recentClicks'[k2] = recentClicks[k2]
          /\ (th'[t].pc = "g_inc" /\ th[t].pc # "g_inc") => DedupStep(t)
     /\ recentClicks' # recentClicks => \E t \in Threads : DedupStep(t)]_vars

\* three visits to k1, one after the other: the first counted, the second
\* skipped, the third, three seconds after the first, counted
C16_Witness ==
  /\ th["t1"].pc = "done"
  /\ th["t1"].op = "GetLongURL"
  /\ th["t1"].key = "k1"
  /\ th["t1"].counted
  /\ th["t2"].pc = "idle"
  /\ ops = 3
  /\ faults = 0
  /\ now = 3
  /\ TheRow(store, "k1").visitCount = 2
  /\ TheRow(store, "k2").visitCount = 0
  /\ recentClicks["k1"] = SomeTime(3)
  /\ recentClicks["k2"] = NullTime

\* thread t performs a cache Delete of cleanupCacheEntries in this step
EvictStep(t) ==
  th[t].op = "CleanupExpiredBatch" /\ th[t].pc = "c_evict" /\ th'[t] # th[t]

C18_ShortenTTL ==
  /\ [](\A r \in store : r.id >= 3 => r.expiresAt.valid)
  /\ [][\A t \in Threads :
          (Steps(t, "Shorten") /\ th[t].pc = "s_save") =>
             \A r \in store' \ store :
               /\ r.shortKey = th[t].key
               /\ r.expiresAt.valid
               /\ r.expiresAt.time =
                    r.createdAt + (IF th[t].ttl = 0 THEN 24 * 60 * 60 ELSE th[t].ttl)]_vars

\* an hour after start-up one request without TTL and one with TTL 3 have
\* stored their records
C18_Witness ==
  \E r1, r2 \in store :
    /\ r1.id >= 3
    /\ r2.id >= 3
    /\ r1.createdAt = 3600
    /\ r1.expiresAt = SomeTime(3600 + 86400)
    /\ r2.expiresAt = SomeTime(r2.createdAt + 3)

\* C19: with CleanupConfig.Enabled = false, StartCleanup returns nil without
\* starting a cleanup loop: the reaper stays Stopped, the stats snapshot
\* reports IsRunning = false, no ticker and no cleanupLoop goroutine is ever
\* created, so no FindExpiredURLs or DeleteExpiredBatch call is ever issued
\* by a ticker.
C19_DisabledStaysStopped ==
  /\ [](~config.Enabled =>
          /\ running = 0
          /\ ~stats.IsRunning
          /\ ticker = 0
          /\ wg = 0
          /\ \A l \in Loops : th[l].pc = "idle")
  /\ [][\A t \in Threads :
          (th[t].pc = "st_cas" /\ th'[t] # th[t] /\ ~config.Enabled) =>
             /\ th'[t].pc = "done"
             /\ th'[t].result = "ok"
             /\ ReaperState' = ReaperState]_vars

\* with cleanup disabled, two StartCleanup calls have both returned nil
C19_Witness ==
  /\ ~config.Enabled
  /\ ops = 2
  /\ \E t \in Threads :
       /\ th[t].pc = "done"
       /\ th[t].op = "StartCleanup"
       /\ th[t].result = "ok"
  /\ \A t \in Threads : th[t].op \in {"none", "StartCleanup"} /\ th[t].pc \in {"idle", "done"}

\* C20: initially all counters are 0 and IsRunning is false; every
\* CleanupExpiredBatch call, as it completes (it records its statistics and
\* returns), adds one to successfulRuns or to failedRuns, adds the count it
\* returns to totalCleaned and sets lastBatchSize to that count, and nothing
\* else changes the counters; so after any sequence and any interleaving of
\* calls successfulRuns + failedRuns is the number of completed calls,
\* totalCleaned the sum of the counts they returned, and lastBatchSize the
\* count of the call that completed last.
C20_StatsAccounting ==
  /\ stats = NoStats
  /\ [][/\ \A t \in Threads :
             Returns(t, "CleanupExpiredBatch") =>
               /\ stats'.SuccessfulRuns + stats'.FailedRuns =
                    stats.SuccessfulRuns + stats.FailedRuns + 1
               /\ stats'.SuccessfulRuns =
                    stats.SuccessfulRuns + (IF th'[t].result = "ok" THEN 1 ELSE 0)
               /\ stats'.TotalCleaned = stats.TotalCleaned + th'[t].count
               /\ stats'.LastBatchSize = th'[t].count
        /\ (\A t \in Threads : ~Returns(t, "CleanupExpiredBatch")) => stats' = stats]_vars

\* two overlapping runs have completed, the first to complete with a count
\* of at least one and the last with a count of zero
C20_Witness ==
  /\ \A t \in {"t1", "t2"} :
       /\ th[t].pc = "done"
       /\ th[t].op = "CleanupExpiredBatch"
  /\ ops = 2
  /\ stats.SuccessfulRuns + stats.FailedRuns = 2
  /\ stats.TotalCleaned = th["t1"].count + th["t2"].count
  /\ stats.TotalCleaned >= 1
  /\ stats.LastBatchSize = 0
  /\ ~stats.IsRunning

\* thread t performs the GetCacheEntry call of its GetLongURL in this step,
\* the call does not fail, and it finds a value for the key
CacheRead(t) ==
  /\ Steps(t, "GetLongURL")
  /\ th[t].pc = "g_cache"
  /\ faults' = faults
  /\ cache[th[t].key].present

\* C21: when the cache holds a tombstone for the key, GetLongURL fails with
\* ErrURLExpired if the tombstone's reason is "expired" and with
\* ErrURLNotFound for reason "deleted" or any other reason, and it does so
\* at once: without consulting the store, without writing the cache and
\* without incrementing the visit count.
C21_TombstoneHit ==
  [][\A t \in Threads :
       (CacheRead(t) /\ GetCacheEntry(cache[th[t].key]).IsTombstone) =>
          /\ th'[t].pc = "done"
          /\ GetCacheEntry(cache[th[t].key]).Reason = "expired" =>
               th'[t].result = "ErrURLExpired"
          /\ GetCacheEntry(cache[th[t].key]).Reason # "expired" =>
               th'[t].result = "ErrURLNotFound"
          /\ ~th'[t].usedStore
          /\ ~th'[t].counted
          /\ store' = store
          /\ cache' = cache
          /\ recentClicks' = recentClicks
          /\ hits' = hits]_vars

\* a call has failed ErrURLNotFound from a tombstone whose reason is neither
\* "expired" nor "deleted"
C21_Witness ==
  \E t \in Threads :
    /\ th[t].pc = "done"
    /\ th[t].op = "GetLongURL"
    /\ th[t].result = "ErrURLNotFound"
    /\ ~th[t].usedStore
    /\ ~th[t].faulted
    /\ cache[th[t].key].present
    /\ GetCacheEntry(cache[th[t].key]).IsTombstone
    /\ GetCacheEntry(cache[th[t].key]).Reason \notin {"expired", "deleted"}

\* the value of key k is a tombstone of the given reason that Redis keeps
\* until clock value until
TombstoneUntil(c, k, reason, until) ==
  /\ c[k].present
  /\ GetCacheEntry(c[k]).IsTombstone
  /\ GetCacheEntry(c[k]).Reason = reason
  /\ c[k].evictAt = until

\* thread t performs in this step the SetTombstone call that follows a cache
\* hit (the call has not consulted the store)
HitTombstoneStep(t) ==
  /\ Steps(t, "GetLongURL")
  /\ th[t].pc = "g_settomb"
  /\ ~th[t].usedStore

\* C22: cache-hit re-validation: when the cache holds a non-tombstone entry
\* whose expiresAt is before now, GetLongURL goes on to SetTombstone with
\* reason "expired" and TTL one hour, which replaces the entry unless the
\* call fails, and returns ErrURLExpired, without consulting the store and
\* without incrementing the visit count.
C22_CacheHitRevalidation ==
  [][\A t \in Threads :
       /\ (/\ CacheRead(t)
           /\ ~GetCacheEntry(cache[th[t].key]).IsTombstone
           /\ GetCacheEntry(cache[th[t].key]).ExpiresAt.valid
           /\ GetCacheEntry(cache[th[t].key]).ExpiresAt.time < now) =>
             /\ th'[t].pc = "g_settomb"
             /\ ~th'[t].usedStore
             /\ store' = store
             /\ recentClicks' = recentClicks
             /\ hits' = hits
       /\ HitTombstoneStep(t) =>
             /\ th'[t].pc = "done"
             /\ th'[t].result = "ErrURLExpired"
             /\ ~th'[t].usedStore
             /\ ~th'[t].counted
             /\ store' = store
             /\ recentClicks' = recentClicks
             /\ hits' = hits
             /\ faults' = faults => TombstoneUntil(cache', th[t].key, "expired", now + 3600)
             /\ \A k \in Keys \ {th[t].key} : cache'[k] = cache[k]]_vars

\* the first call of a run found an entry whose expiration time had passed:
\* it has failed ErrURLExpired without consulting the store, and the entry is
\* now an "expired" tombstone with an hour to live
C22_Witness ==
  \E t \in Threads :
    /\ ops = 1
    /\ th[t].pc = "done"
    /\ th[t].op = "GetLongURL"
    /\ th[t].key = "k2"
    /\ th[t].result = "ErrURLExpired"
    /\ ~th[t].usedStore
    /\ ~th[t].faulted
    /\ TombstoneUntil(cache, "k2", "expired", now + 3600)

\* thread t performs the FindByShortKey call of its GetLongURL in this step
LookupStep(t) ==
  /\ Steps(t, "GetLongURL")
  /\ th[t].pc = "g_find"

\* thread t performs in this step the SetTombstone call that follows a cache
\* miss (the call has consulted the store)
MissTombstoneStep(t) ==
  /\ Steps(t, "GetLongURL")
  /\ th[t].pc = "g_settomb"
  /\ th[t].usedStore

\* C23: on a cache miss, when FindByShortKey does not return a record (the
\* key is absent, or the lookup fails for any other reason), GetLongURL
\* calls SetTombstone with reason "deleted" and TTL one hour and fails with
\* ErrURLNotFound; when it returns an expired record, GetLongURL calls
\* SetTombstone with reason "expired" and TTL one hour and fails with
\* ErrURLExpired.
C23_CacheMissTombstones ==
  [][\A t \in Threads :
       /\ (LookupStep(t) /\ (faults' # faults \/ ~HasKey(store, th[t].key))) =>
             /\ th'[t].pc = "g_settomb"
             /\ th'[t].reason = "deleted"
       /\ (/\ LookupStep(t)
           /\ faults' = faults
           /\ \E r \in RowsOf(store, th[t].key) :
                r.expiresAt.valid /\ r.expiresAt.time < now) =>
             /\ th'[t].pc = "g_settomb"
             /\ th'[t].reason = "expired"
       /\ MissTombstoneStep(t) =>
             /\ th'[t].pc = "done"
             /\ th[t].reason = "deleted" => th'[t].result = "ErrURLNotFound"
             /\ th[t].reason = "expired" => th'[t].result = "ErrURLExpired"
             /\ th[t].reason \in {"deleted", "expired"}
             /\ faults' = faults => TombstoneUntil(cache', th[t].key, th[t].reason, now + 3600)]_vars

\* the first call of a run missed the cache and its store lookup failed
\* although the record is there: it has failed ErrURLNotFound and the key
\* now has a "deleted" tombstone with an hour to live
C23_Witness ==
  \E t \in Threads :
    /\ ops = 1
    /\ th[t].pc = "done"
    /\ th[t].op = "GetLongURL"
    /\ th[t].usedStore
    /\ th[t].faulted
    /\ HasKey(store, th[t].key)
    /\ th[t].result = "ErrURLNotFound"
    /\ TombstoneUntil(cache, th[t].key, "deleted", now + 3600)

\* what GetLongURL returns when it resolves a key from the store alone, by
\* the state of the key's record
StoreOutcome(s) ==
  IF s = "valid" THEN "ok"
  ELSE IF s = "expired" THEN "ErrURLExpired"
  ELSE "ErrURLNotFound"

\* C24: cache failures never change the outcome of GetLongURL: a failing
\* GetCacheEntry is treated as a cache miss and the key is resolved from
\* the store, a failing SetCacheEntry or SetTombstone is ignored, and so a
\* call whose cache calls all work returns, for the same store state, what
\* the call returns when the cache does not work: the outcome the store
\* state dictates.
C24_CacheFailuresInvisible ==
  [][\A t \in Threads :
       /\ (Steps(t, "GetLongURL") /\ th[t].pc = "g_cache" /\ faults' # faults) =>
             /\ th'[t].pc = "g_find"
             /\ cache' = cache
       /\ (Steps(t, "GetLongURL") /\ th[t].pc = "g_settomb" /\ faults' # faults) =>
             /\ th'[t].pc = "done"
             /\ th'[t].result = th[t].result
       /\ (Steps(t, "GetLongURL") /\ th[t].pc = "g_setcache" /\ faults' # faults) =>
             /\ th'[t].pc = "g_dedup"
             /\ th'[t].url = th[t].url
       /\ (/\ Returns(t, "GetLongURL")
           /\ th[t].key \in Keys
           /\ ~th'[t].faulted
           /\ KeyState(store, th[t].key, now) = th[t].b_state) =>
             th'[t].result = StoreOutcome(th[t].b_state)]_vars

\* thread t computes in this step the TTL under which it will cache a valid
\* record: cacheURL after Save, cacheValidURL after FindByShortKey
ComputesTTL(t) ==
  \/ Steps(t, "Shorten") /\ th[t].pc = "s_save" /\ th'[t].pc = "s_cache"
  \/ Steps(t, "GetLongURL") /\ th[t].pc = "g_find" /\ th'[t].pc = "g_setcache"

\* C25: when a valid record is cached (on a resolved cache miss and on
\* Shorten), the cache TTL equals the minimum of the time until expiresAt
\* and the default ceiling defaultTTL, raised to at least the one-minute
\* floor; in particular it is never zero or negative, never below one
\* minute and never above defaultTTL.
C25_CacheTTLBounds ==
  [][\A t \in Threads :
       ComputesTTL(t) =>
         LET exp   == IF th[t].op = "Shorten" THEN th[t].exp ELSE th'[t].exp
             until == IF exp.valid THEN exp.time - now ELSE DefaultCacheTTL
             lower == Min(until, DefaultCacheTTL)
         IN /\ th'[t].ttl = IF lower < MinCacheTTL THEN MinCacheTTL ELSE lower
            /\ th'[t].ttl > 0
            /\ th'[t].ttl >= MinCacheTTL
            /\ th'[t].ttl <= DefaultCacheTTL]_vars

\* the rows of st2 are the rows of st1 with, at most, other visit counts and
\* access times: none saved, none deleted, none rewritten
SameRecords(st1, st2) ==
  /\ RowIDs(st1) = RowIDs(st2)
  /\ \A r2 \in st2 : \E r1 \in st1 :
       r2 = [r1 EXCEPT !.visitCount = r2.visitCount, !.lastAccessedAt = r2.lastAccessedAt]

\* C26: the read path mutates the store only through IncrementVisitCount on
\* a successful resolution: no step of GetLongURL saves, rewrites or deletes
\* a record; the only steps that change the dedup map or a record's
\* visitCount and lastAccessedAt are the dedup check and the increment,
\* which only a call that returns the long URL reaches; and a call that
\* fails (invalid key, NotFound, Expired, tombstone hit) returns with every
\* store record and the dedup map unchanged.
C26_ReadPathFrame ==
  [][\A t \in Threads :
       Steps(t, "GetLongURL") =>
         /\ SameRecords(store, store')
         /\ (store' # store \/ recentClicks' # recentClicks) =>
               th[t].pc \in {"g_dedup", "g_inc"}
         /\ th[t].pc \in {"g_dedup", "g_inc"} =>
               \/ th'[t].pc = "g_inc"
               \/ th'[t].pc = "done" /\ th'[t].result = "ok"
         /\ (th'[t].pc = "done" /\ th'[t].result # "ok") =>
               /\ store' = store
               /\ recentClicks' = recentClicks
               /\ hits' = hits
               /\ ~th'[t].counted]_vars

\* the first call of a run found an expired record in the store and has
\* failed ErrURLExpired: the record is there with no visit and no access
\* time, and the dedup map is empty
C26_Witness ==
  \E t \in Threads :
    /\ ops = 1
    /\ th[t].pc = "done"
    /\ th[t].op = "GetLongURL"
    /\ th[t].result = "ErrURLExpired"
    /\ th[t].usedStore
    /\ HasKey(store, th[t].key)
    /\ TheRow(store, th[t].key).visitCount = 0
    /\ ~TheRow(store, th[t].key).lastAccessedAt.valid
    /\ \A k \in Keys : ~recentClicks[k].valid

\* the GetLongURL calls for key k that shouldIncrementVisitCount has told to
\* count the visit and that have not made their IncrementVisitCount call yet
ToldToCount(k) ==
  {t \in Threads : th[t].op = "GetLongURL" /\ th[t].key = k /\ th[t].pc = "g_inc"}

\* the GetLongURL calls for key k that have been through
\* shouldIncrementVisitCount
PastDedup(k) ==
  {t \in Threads : /\ th[t].op = "GetLongURL"
                   /\ th[t].key = k
                   /\ \/ th[t].pc = "g_inc"
                      \/ th[t].pc = "done" /\ th[t].result = "ok"}

\* C27: the dedup check-and-record is atomic: of the concurrent
\* shouldIncrementVisitCount calls for one key that arrive within one
\* 3-second window with no prior entry, exactly one returns true, so the
\* concurrent GetLongURL calls for one valid key in that window cause
\* exactly one store increment (at most one in any case; one when a call
\* has been through the dedup check and no store or cache call has failed).
C27_DedupAtomic ==
  \A k \in Keys :
    (now < DedupWindow /\ HasKey(store, k)) =>
      LET counted == hits[TheRow(store, k).id] + Cardinality(ToldToCount(k))
      IN /\ counted <= 1
         /\ (faults = 0 /\ PastDedup(k) # {}) => counted = 1
         /\ ToldToCount(k) = {} => TheRow(store, k).visitCount = hits[TheRow(store, k).id]

\* two calls for one key ran concurrently inside one window: both have
\* returned the long URL, one of them counted the visit, and the record has
\* one visit
C27_Witness ==
  \E k \in Keys :
    /\ now < DedupWindow
    /\ faults = 0
    /\ \A t \in {"t1", "t2"} :
         /\ th[t].pc = "done"
         /\ th[t].op = "GetLongURL"
         /\ th[t].key = k
         /\ th[t].result = "ok"
    /\ Cardinality({t \in {"t1", "t2"} : th[t].counted}) = 1
    /\ TheRow(store, k).visitCount = 1

\* a step that changes the dedup map and is not a dedup check is a round of
\* cleanupRecentClicks
PruneStep ==
  /\ recentClicks' # recentClicks
  /\ \A t \in Threads : ~DedupStep(t)

\* C28: pruning is invisible to dedup decisions: cleanupRecentClicks removes
\* only entries older than 5 seconds, so never one that could still suppress
\* an increment (younger than 3 seconds); for every interleaving of prune
\* runs with visits each shouldIncrementVisitCount call returns what it
\* returns in the run with no pruning; and after a prune run the map holds
\* no entry older than 5 seconds.
C28_PruningInvisible ==
  [][/\ PruneStep =>
          /\ now' = now
          /\ \A k \in Keys :
               /\ recentClicks'[k] \in {recentClicks[k], NullTime}
               /\ (recentClicks[k].valid /\ now - recentClicks[k].time <= 5) =>
                     recentClicks'[k] = recentClicks[k]
               /\ recentClicks'[k].valid => now - recentClicks'[k].time <= 5
     /\ \A t \in Threads :
          DedupStep(t) =>
            LET k == th[t].key
            IN /\ (th'[t].pc = "g_inc") =
                    ~(unprunedClicks[k].valid /\ now - unprunedClicks[k].time < 3)
               /\ recentClicks'[k] = unprunedClicks'[k]]_vars

\* a round of cleanupRecentClicks has removed the entry of a key that was
\* visited before, while a later visit to that key is on its way to the
\* dedup check
C28_Witness ==
  \E t \in Threads :
    /\ th[t].op = "GetLongURL"
    /\ th[t].pc = "g_dedup"
    /\ unprunedClicks[th[t].key].valid
    /\ ~recentClicks[th[t].key].valid
    /\ hits[TheRow(store, th[t].key).id] = 1

\* C29: during GetLongURL no lock is held while a store or cache call is in
\* progress (the critical section of the dedup check makes no such call),
\* and two GetLongURL calls for different keys never acquire the same lock.
C29_NoLockAcrossIONoSharedLock ==
  /\ [](\A t, u \in Threads :
          (/\ t \in PastDedup(th[t].key)
           /\ u \in PastDedup(th[u].key)
           /\ th[t].key # th[u].key) =>
             DedupLock(th[t].key) # DedupLock(th[u].key))
  /\ [][\A t \in Threads :
          DedupStep(t) =>
            /\ store' = store
            /\ cache' = cache
            /\ faults' = faults]_vars

\* C30: cache eviction during reaping is best-effort: after a successful
\* batch delete CleanupExpiredBatch attempts cache Delete once for every key
\* of the batch, from the first to the last; a failure for one key leaves
\* the cache as it is, does not prevent the attempts for the remaining keys
\* and is not retried; and it does not change the result: after the last
\* attempt the call returns the batch size with no error and counts as a
\* successful run.
C30_BestEffortEviction ==
  [][\A t \in Threads :
       /\ (DeleteStep(t) /\ th'[t].pc # "done") =>
             /\ th'[t].pc = "c_evict"
             /\ th'[t].id = 1
             /\ Len(th'[t].batch) >= 1
       /\ EvictStep(t) =>
            LET i == th[t].id
                k == th[t].batch[i]
            IN /\ store' = store
               /\ \A k2 \in Keys \ {k} : cache'[k2] = cache[k2]
               /\ IF faults' = faults THEN ~cache'[k].present ELSE cache'[k] = cache[k]
               /\ i < Len(th[t].batch) =>
                     /\ th'[t].pc = "c_evict"
                     /\ th'[t].id = i + 1
                     /\ th'[t].batch = th[t].batch
                     /\ stats' = stats
               /\ i = Len(th[t].batch) =>
                     /\ th'[t].pc = "done"
                     /\ th'[t].result = "ok"
                     /\ th'[t].count = Len(th[t].batch)
                     /\ stats'.SuccessfulRuns = stats.SuccessfulRuns + 1
                     /\ stats'.FailedRuns = stats.FailedRuns
                     /\ stats'.TotalCleaned = stats.TotalCleaned + Len(th[t].batch)]_vars

\* a run with a batch of two has returned 2 without error although the
\* cache Delete for its first key failed: the record is gone, the tombstone
\* that a GetLongURL call had written for the key is still in the cache, and
\* the run is counted as successful
C30_Witness ==
  \E t \in Threads :
    /\ th[t].pc = "done"
    /\ th[t].op = "CleanupExpiredBatch"
    /\ th[t].result = "ok"
    /\ th[t].count = 2
    /\ th[t].faulted
    /\ ~HasKey(store, "k1")
    /\ cache["k1"].present
    /\ GetCacheEntry(cache["k1"]).IsTombstone
    /\ stats.SuccessfulRuns = 1
    /\ stats.FailedRuns = 0

\* C31: one CleanupExpiredBatch(batchSize) call deletes at most batchSize
\* records, and the records it selects are those with the earliest
\* expiresAt among all eligible records (oldest-first): it selects at most
\* batchSize records, all of them eligible, all eligible ones when they are
\* fewer than batchSize, and none that expired later than an eligible record
\* it leaves; its delete removes at most as many records as it selected.
C31_OldestFirstBatch ==
  [][\A t \in Threads :
       /\ (FindStep(t) /\ faults' = faults) =>
            LET E        == Eligible(store, th[t].cutoff)
                selected == {r \in store : r.id \in th'[t].cand}
            IN /\ Cardinality(selected) <= th[t].count
               /\ selected \subseteq E
               /\ Cardinality(selected) < th[t].count => selected = E
               /\ \A s \in selected : \A r \in E \ selected :
                    s.expiresAt.time <= r.expiresAt.time
               /\ th'[t].pc = "c_delete" =>
                    /\ Len(th'[t].batch) = Cardinality(selected)
                    /\ Range(th'[t].batch) = {s.shortKey : s \in selected}
       /\ DeleteStep(t) =>
            /\ store' \subseteq store
            /\ Cardinality(store \ store') <= Len(th[t].batch)
            /\ \A r \in store \ store' : r.shortKey \in Range(th[t].batch)]_vars

\* a run with batchSize 1 found two eligible records: it has deleted the one
\* that expired first and left the other
C31_Witness ==
  \E t \in Threads :
    /\ th[t].pc = "done"
    /\ th[t].op = "CleanupExpiredBatch"
    /\ th[t].result = "ok"
    /\ th[t].count = 1
    /\ th[t].elig = {1, 2}
    /\ th[t].cand = {1}
    /\ RowIDs(store) = {2}

\* C32: a failed cleanup tick does not stop the reaper: after
\* CleanupExpiredBatch returns an error inside cleanupLoop the loop goroutine
\* is still registered and can go back to its select, where the next tick makes
\* it call CleanupExpiredBatch again while the reaper is running; the failed
\* return changes no request-serving call.
C32_FailedTickKeepsLoop ==
  /\ [](\A l \in Loops :
          (th[l].pc = "done" /\ th[l].op = "CleanupExpiredBatch" /\ th[l].result = "error")
            => ENABLED LoopEnter(l))
  /\ [][\A l \in Loops :
          /\ (Returns(l, "CleanupExpiredBatch") /\ th'[l].result = "error") =>
               /\ \A t \in Threads : th'[t] = th[t]
               /\ wg' = wg
               /\ running' = running
               /\ done' = done
               /\ tickerC' = tickerC
          /\ (th[l].pc = "done" /\ th[l].result = "error" /\ th'[l] # th[l]) =>
               /\ th'[l].pc = "l_select"
               /\ wg' = wg
          /\ (th[l].pc = "l_select" /\ th'[l] # th[l] /\ ~done) => th'[l].pc = "l_check"
          /\ (th[l].pc = "l_check" /\ th'[l] # th[l] /\ running = 1) =>
               /\ th'[l].pc = "c_find"
               /\ th'[l].op = "CleanupExpiredBatch"]_vars

\* the loop's first run has failed and its second tick has started a run
C32_Witness ==
  \E l \in Loops :
    /\ th[l].pc = "c_find"
    /\ stats.FailedRuns = 1
    /\ \E i \in 1..MaxStarts : tickerC[i].fired = 2

\* C33: Shorten with a custom key that has a record in the store, expired or
\* not, fails with ErrCustomKeyExists and changes neither store nor cache;
\* the store never holds two records for one key, and a Shorten call with a
\* custom key none of whose store and cache calls failed either succeeds or
\* fails with ErrCustomKeyExists, however it is interleaved with other calls.
C33_CustomKeyConflict ==
  /\ [](\A r1, r2 \in store : r1.shortKey = r2.shortKey => r1 = r2)
  /\ [][\A t \in Threads :
          /\ (th[t].pc = "s_exists" /\ th'[t] # th[t] /\ faults' = faults
                /\ HasKey(store, th[t].key)) =>
               /\ th'[t].pc = "done"
               /\ th'[t].result = "ErrCustomKeyExists"
               /\ store' = store
               /\ cache' = cache
          /\ (Returns(t, "Shorten") /\ th[t].custom /\ ~th'[t].faulted
                /\ th'[t].result # "ok") =>
               th'[t].result = "ErrCustomKeyExists"]_vars

\* C34: a failing visit-count increment never fails the redirect: when
\* GetLongURL has resolved a valid URL and its IncrementVisitCount call fails,
\* by an error of the store or because the record is gone, GetLongURL
\* returns that long URL with a nil error and the store is as it was.
C34_IncrementFailureIgnored ==
  [][\A t \in Threads :
       (th[t].pc = "g_inc" /\ th'[t] # th[t]
          /\ (faults' # faults \/ ~HasKey(store, th[t].key))) =>
         /\ th[t].url # ""
         /\ th'[t].pc = "done"
         /\ th'[t].result = "ok"
         /\ th'[t].url = th[t].url
         /\ ~th'[t].counted
         /\ store' = store]_vars

\* a GetLongURL call whose increment found no record has returned the long URL
C34_Witness ==
  \E t \in Threads :
    /\ th[t].pc = "done"
    /\ th[t].op = "GetLongURL"
    /\ th[t].result = "ok"
    /\ th[t].url # ""
    /\ ~th[t].faulted
    /\ ~th[t].counted
    /\ ~HasKey(store, th[t].key)
    /\ recentClicks[th[t].key] = SomeTime(now)

\* C35: the reaper can be restarted: with StartCleanup and StopCleanup called
\* one after the other, whenever the reaper is Running and no call is in
\* progress a cleanup loop is alive, a live loop of a Running reaper takes
\* the tick that is waiting for it, and no StopCleanup call panics.
C35_RestartableReaper ==
  /\ [](\A t \in Threads : th[t].result # "panic")
  /\ []((running = 1 /\ \A t \in Threads : th[t].pc \in {"idle", "done"})
          => \E l \in Loops : th[l].pc \notin {"idle", "l_exit"})
  /\ [][\A l \in Loops :
          (th[l].pc = "l_select" /\ th'[l] # th[l] /\ running = 1
             /\ \A t \in Threads : th[t].pc \in {"idle", "done"})
            => th'[l].pc = "l_check"]_vars

\* C36: whenever no StartCleanup or StopCleanup call is in progress, the
\* IsRunning field of the stats equals the reaper's atomic running flag.
C36_IsRunningMatchesFlag ==
  (\A t \in Threads : th[t].op \in {"StartCleanup", "StopCleanup"} => th[t].pc = "done")
    => (stats.IsRunning <=> running = 1)

\* C37: the count returned by a successful CleanupExpiredBatch, which is the
\* amount it adds to TotalCleaned, is the number of records that the call
\* removed from the store, also when another run deletes some of the same
\* keys at the same time.
C37_CountIsRemoved ==
  [][\A t \in Threads :
       /\ (th[t].pc = "c_delete" /\ th'[t].pc = "c_evict") =>
            th'[t].count = Cardinality(store \ store')
       /\ (th[t].pc = "c_evict" /\ th'[t].pc = "done") =>
            /\ th'[t].result = "ok"
            /\ th'[t].count = th[t].count
            /\ stats'.TotalCleaned = stats.TotalCleaned + th'[t].count]_vars

\* thread t's last call was a GetLongURL(k), none of whose store and cache
\* calls failed, that returned an error although k's record is not expired
ResolveRefused(t, k) ==
  /\ th[t].op = "GetLongURL"
  /\ th[t].pc = "done"
  /\ th[t].key = k
  /\ ~th[t].faulted
  /\ th[t].result # "ok"
  /\ HasKey(store, k)
  /\ ~IsExpired(TheRow(store, k).expiresAt, now)

\* C38: a freshly created link resolves: a GetLongURL(K) that begins when a
\* Shorten call has returned K to its caller, that completes before K's
\* expiration with K's record in the store, and none of whose store and
\* cache calls fails, returns the long URL, whatever GetLongURL(K) calls
\* that started before the record was saved are interleaved with it.
C38_FreshLinkResolves ==
  [][\A t \in Threads :
       (Returns(t, "GetLongURL") /\ th[t].b_created /\ ~th'[t].faulted
          /\ HasKey(store, th[t].key)
          /\ ~IsExpired(TheRow(store, th[t].key).expiresAt, now))
         => th'[t].result = "ok"]_vars

\* C39: a transient store failure does not poison a valid key: a
\* GetLongURL(K) that begins after a GetLongURL(K) has returned
\* ErrURLNotFound because its FindByShortKey failed, K's record existing
\* unexpired, and whose own store and cache calls all succeed, returns the
\* long URL while the record is still unexpired.
C39_TransientFailureHeals ==
  [][\A t \in Threads :
       (Returns(t, "GetLongURL") /\ th[t].b_failed /\ ~th'[t].faulted
          /\ HasKey(store, th[t].key)
          /\ ~IsExpired(TheRow(store, th[t].key).expiresAt, now))
         => th'[t].result = "ok"]_vars

====
